---- MODULE Spec2Model ----
(***************************************************************************)
(* Model of the financial projection engine of visionfund-finance:         *)
(*   src/src/utils/financialCalculations.ts  (time-value primitives,       *)
(*        calendar/period model, goal projection functions)                *)
(*   src/unnamed/part_023  (calculateGoalMetrics, the status classifier)   *)
(*                                                                         *)
(* Conventions of the model                                                *)
(*  - Money is a whole number of the smallest amount the goals table       *)
(*    stores (DECIMAL(12,2): a cent), so the code's ceil(x * 100) / 100    *)
(*    is Ceil(x).  In exact arithmetic every formula of the engine is      *)
(*    homogeneous in the money unit, so the unit changes no comparison.    *)
(*  - Arithmetic is exact rational arithmetic ([n |-> , d |-> ] with       *)
(*    d > 0); IEEE-754 rounding of Math.pow / Math.log is not modelled.    *)
(*    The required payment at rate 0 is the exception: it is one           *)
(*    subtraction, one division and one multiplication, which IEEE-754     *)
(*    defines bit for bit, and it is computed in doubles as the code does. *)
(*  - A JS Date is its day number (days since 1970-01-01); the local time  *)
(*    zone is taken to be UTC and the time of day is dropped.  getFullYear,*)
(*    getMonth, getDate and the Date constructor are computed from the day *)
(*    number with the proleptic Gregorian calendar, as ECMAScript does.    *)
(*  - A real-valued period count (NPER) is represented by what the code    *)
(*    reads of it: whether it is finite, whether it exceeds 1200, and its  *)
(*    ceiling.                                                             *)
(***************************************************************************)
EXTENDS Integers, Sequences, FiniteSets, TLC

VARIABLES now, ticks, goal, payment, completion, metrics,
          goals, contributions, started, counted, projected, progress, loop,
          interest, between, current, history, hook

\* the goals and contributions tables of the database
dbVars == <<goals, contributions>>

\* the recorded calls of the calendar functions
calendarVars == <<started, counted>>

\* the recorded call of calculateProjectedTotal
totalVars == <<projected>>

\* the recorded call of calculateProgressPercentage
progressVars == <<progress>>

\* the run of the dollar-rounding calculateMonthlyPayment
loopVars == <<loop>>

\* the recorded call of calculateProjectedInterest
interestVars == <<interest>>

\* the recorded call of calculateMonthsBetweenDates
betweenVars == <<between>>

\* the arguments and the result of calculateCurrentTotal
currentVars == <<current>>

\* the arguments and the result of generateMonthlyData
historyVars == <<history>>

\* the state of the useGoals hook, its calls in flight and the goals table it reads
hookVars == <<hook>>

vars == <<now, ticks, goal, payment, completion, metrics, dbVars, calendarVars, totalVars,
          progressVars, loopVars, interestVars, betweenVars, currentVars, historyVars,
          hookVars>>

(***************************************************************************)
(* Bounds of the model                                                     *)
(***************************************************************************)
\* small money amounts (cents) run over 0..MaxAmount
MaxAmount == 4
\* pledges passed to calculateCompletionDate run over -1..MaxPledge
MaxPledge == 2
\* the clock advances at most MaxTicks days after the initial instant
MaxTicks == 2
\* largest exponent n for which (1 + r)^n is evaluated exactly at r > 0
MaxExp == 5
\* pledges and totals of the goals given to the status classifier
MaxStatusPledge == 10
MaxStatusTotal == 12
\* rows of the goals table, rows of the contributions table, and the largest
\* amount written to either
MaxGoals == 2
MaxContributions == 2
MaxDbAmount == 2

\* calculateProgressPercentage is called with current amounts -2..MaxProgressCurrent
\* and target amounts -2..MaxProgressTarget
MaxProgressCurrent == 12
MaxProgressTarget == 8

\* the dollar-rounding calculateMonthlyPayment is called with targets of
\* 1..MaxLoopTarget dollars, initial amounts of 0..MaxLoopInitial dollars and, at
\* a positive rate, target dates at most MaxLoopMonths months ahead
MaxLoopTarget == 6
MaxLoopInitial == 2
MaxLoopMonths == 3

\* contributions handed to generateMonthlyData
MaxHistoryContributions == 1

\* calls of fetchGoals, writes and changes of the user in a run of the hook
MaxCalls == 4
MaxWrites == 1
MaxAuthChanges == 2

(***************************************************************************)
(* Program constants                                                       *)
(***************************************************************************)
\* "periods > 1200" in calculateCompletionDate
PeriodCeiling == 1200
\* 1000 * 60 * 60 * 24 * 365 * 100 ms, in days
SentinelDays == 36500
\* the iteration ceiling of the iterative calculateCompletionDate
maxMonths == 1200

(***************************************************************************)
(* Integer and rational helpers (JS number arithmetic, made exact)         *)
(***************************************************************************)
\* The helpers are functions behind operators of the same meaning: the
\* argument of a function is evaluated once, where the argument of an operator
\* is evaluated at each of its uses.
MaxOf[a \in Int, b \in Int] == IF a >= b THEN a ELSE b

Max(a, b) == MaxOf[a, b]

MinOf[a \in Int, b \in Int] == IF a <= b THEN a ELSE b

Min(a, b) == MinOf[a, b]

AbsOf[a \in Int] == IF a < 0 THEN -a ELSE a

Abs(a) == AbsOf[a]

\* Euclid's algorithm on natural numbers
Euclid[a \in Nat, b \in Nat] == IF b = 0 THEN a ELSE Euclid[b, a % b]

GCD(a, b) == Euclid[Abs(a), Abs(b)]

PowOf[x \in Int, n \in Int] == IF n <= 0 THEN 1 ELSE x * PowOf[x, n - 1]

Pow(x, n) == PowOf[x, n]

\* the numbers held as fractions
Rationals == [n : Int, d : Int]

\* a rational in lowest terms with a positive denominator
RatOf[n \in Int, d \in Int] ==
  LET g == GCD(n, d)
      s == IF d < 0 THEN -1 ELSE 1
  IN  [n |-> s * (n \div g), d |-> s * (d \div g)]

Rat(n, d) == RatOf[n, d]

RatOfInt(i) == [n |-> i, d |-> 1]

RatSubOf[x \in Rationals, y \in Rationals] == Rat(x.n * y.d - y.n * x.d, x.d * y.d)

RatSub(x, y) == RatSubOf[x, y]

\* x + y over the least common denominator
RatAddOf[x \in Rationals, y \in Rationals] ==
  LET lcm == (x.d \div GCD(x.d, y.d)) * y.d
  IN  Rat(x.n * (lcm \div x.d) + y.n * (lcm \div y.d), lcm)

RatAdd(x, y) == RatAddOf[x, y]

\* Math.round: the nearest integer, halves upwards
RoundOf[x \in Rationals] == (2 * x.n + x.d) \div (2 * x.d)

Round(x) == RoundOf[x]

\* x * y, cancelling across before multiplying
RatMulOf[x \in Rationals, y \in Rationals] ==
  LET g1 == GCD(x.n, y.d)
      g2 == GCD(y.n, x.d)
  IN  IF x.n = 0 \/ y.n = 0 THEN RatOfInt(0)
      ELSE Rat((x.n \div g1) * (y.n \div g2), (x.d \div g2) * (y.d \div g1))

RatMul(x, y) == RatMulOf[x, y]

\* x / y for y # 0
RatDiv(x, y) == RatMul(x, Rat(y.d, y.n))

\* Math.ceil
CeilOf[x \in Rationals] == -((-x.n) \div x.d)

Ceil(x) == CeilOf[x]

(***************************************************************************)
(* IEEE-754 binary64 arithmetic on positive numbers                        *)
(*                                                                         *)
(* A positive double is [m |-> N, e |-> k]: N is its 53-bit significand    *)
(* (2^52 <= N < 2^53) and its value is N * 2^k.  A natural number N is the *)
(* sequence of its digits in base 2^16, most significant first, without    *)
(* leading zeros.  Every operation returns the exact result rounded to     *)
(* nearest, ties to even, as the standard prescribes for -, * and /.       *)
(***************************************************************************)
\* bits of the significand of a double
Precision == 53

\* bits of one digit of a natural number
LimbBits == 16

LimbBase == Pow(2, LimbBits)

Zeros(k) == [i \in 1 .. k |-> 0]

Front(N) == SubSeq(N, 1, Len(N) - 1)

Last(N) == N[Len(N)]

\* the number of binary digits of an integer i >= 0
RECURSIVE BitLength(_)
BitLength(i) == IF i = 0 THEN 0 ELSE 1 + BitLength(i \div 2)

\* N without its leading zero digits
StripLimbs(N) ==
  IF \A i \in DOMAIN N : N[i] = 0 THEN <<>>
  ELSE SubSeq(N, CHOOSE i \in DOMAIN N : N[i] # 0 /\ \A j \in 1 .. i - 1 : N[j] = 0, Len(N))

\* the number of binary digits of N
BigBitLength(N) ==
  IF N = <<>> THEN 0 ELSE LimbBits * (Len(N) - 1) + BitLength(N[1])

\* the integer N, for N < 2^31
RECURSIVE LimbsToInt(_)
LimbsToInt(N) == IF N = <<>> THEN 0 ELSE LimbsToInt(Front(N)) * LimbBase + Last(N)

\* N * c + carry, for 0 <= c <= 2^15 and 0 <= carry < 2^15
RECURSIVE MulSmall(_, _, _)
MulSmall(N, c, carry) ==
  IF N = <<>> THEN (IF carry = 0 THEN <<>> ELSE <<carry>>)
  ELSE LET p == Last(N) * c + carry
       IN  MulSmall(Front(N), c, p \div LimbBase) \o <<p % LimbBase>>

\* N + 1
RECURSIVE AddOne(_)
AddOne(N) ==
  IF N = <<>> THEN <<1>>
  ELSE IF Last(N) + 1 < LimbBase THEN Front(N) \o <<Last(N) + 1>>
  ELSE AddOne(Front(N)) \o <<0>>

\* N - M - borrow, for digit strings of one length with N >= M + borrow
RECURSIVE BigSub(_, _, _)
BigSub(N, M, borrow) ==
  IF N = <<>> THEN <<>>
  ELSE LET diff == Last(N) - Last(M) - borrow
       IN  BigSub(Front(N), Front(M), IF diff < 0 THEN 1 ELSE 0)
             \o <<IF diff < 0 THEN diff + LimbBase ELSE diff>>

\* the digits of the quotient of N by n and the remainder, carrying the
\* remainder r in, for 0 < n < 2^15
RECURSIVE BigDiv(_, _, _)
BigDiv(N, n, r) ==
  IF N = <<>> THEN [q |-> <<>>, rem |-> r]
  ELSE LET cur == r * LimbBase + Head(N)
           rest == BigDiv(Tail(N), n, cur % n)
       IN  [q |-> <<cur \div n>> \o rest.q, rem |-> rest.rem]

\* N * 2^k
ShiftLeft(N, k) == MulSmall(N, Pow(2, k % LimbBits), 0) \o Zeros(k \div LimbBits)

\* N div 2^k, and whether N mod 2^k is not 0, for k below the bit length of N
TruncShift(N, k) ==
  LET keep == SubSeq(N, 1, Len(N) - k \div LimbBits)
      dropped == SubSeq(N, Len(N) - k \div LimbBits + 1, Len(N))
      low == Pow(2, k % LimbBits)
  IN  [q |-> StripLimbs([i \in 1 .. Len(keep) |->
                          (IF i = 1 THEN 0 ELSE keep[i - 1] % low) * (LimbBase \div low)
                            + keep[i] \div low]),
       lost |-> (\E i \in DOMAIN dropped : dropped[i] # 0) \/ Last(keep) % low # 0]

\* The double nearest to N * 2^e (+ a positive amount below 2^e when sticky),
\* N > 0: round to nearest, ties to even.
RoundToDouble(N, e, sticky) ==
  LET len == BigBitLength(N)
      k == len - Precision
      first == TruncShift(N, k - 1)
      kept == TruncShift(first.q, 1).q
      up == /\ Last(first.q) % 2 = 1
            /\ sticky \/ first.lost \/ Last(kept) % 2 = 1
      inc == IF up THEN AddOne(kept) ELSE kept
  IN  IF len <= Precision
        THEN [m |-> ShiftLeft(N, Precision - len), e |-> e - (Precision - len)]
      ELSE IF BigBitLength(inc) > Precision
        THEN [m |-> TruncShift(inc, 1).q, e |-> e + k + 1]
      ELSE [m |-> inc, e |-> e + k]

\* the double nearest to a / b, for integers 0 < a < 2^15 and 0 < b < 2^15:
\* the value of a DECIMAL(12,2) column read as a number
DoubleOf(a, b) ==
  LET s == Precision + 3 - BitLength(a) + BitLength(b)
      quot == BigDiv(ShiftLeft(<<a>>, s), b, 0)
  IN  RoundToDouble(StripLimbs(quot.q), -s, quot.rem # 0)

\* x - y for doubles x > y > 0
DoubleSub(x, y) ==
  LET e == Min(x.e, y.e)
      X == ShiftLeft(x.m, x.e - e)
      Y == ShiftLeft(y.m, y.e - e)
      len == Max(Len(X), Len(Y))
  IN  RoundToDouble(StripLimbs(BigSub(Zeros(len - Len(X)) \o X, Zeros(len - Len(Y)) \o Y, 0)),
                    e, FALSE)

\* N + M + carry, for digit strings of one length
RECURSIVE BigAdd(_, _, _)
BigAdd(N, M, carry) ==
  IF N = <<>> THEN (IF carry = 0 THEN <<>> ELSE <<carry>>)
  ELSE LET sum == Last(N) + Last(M) + carry
       IN  BigAdd(Front(N), Front(M), sum \div LimbBase) \o <<sum % LimbBase>>

\* x + y for doubles x > 0 and y > 0
DoubleAdd(x, y) ==
  LET e == Min(x.e, y.e)
      X == ShiftLeft(x.m, x.e - e)
      Y == ShiftLeft(y.m, y.e - e)
      len == Max(Len(X), Len(Y))
  IN  RoundToDouble(BigAdd(Zeros(len - Len(X)) \o X, Zeros(len - Len(Y)) \o Y, 0), e, FALSE)

\* x / n for a double x > 0 and an integer 0 < n < 2^13
DoubleDivInt(x, n) ==
  LET s == BitLength(n) + 2
      quot == BigDiv(ShiftLeft(x.m, s), n, 0)
  IN  RoundToDouble(StripLimbs(quot.q), x.e - s, quot.rem # 0)

\* x * 100 for a double x > 0
DoubleTimes100(x) == RoundToDouble(MulSmall(x.m, 100, 0), x.e, FALSE)

\* Math.ceil(x) for a double 0 < x < 2^31 - 1
DoubleCeil(x) ==
  IF -x.e >= Precision THEN 1
  ELSE LET whole == TruncShift(x.m, -x.e)
       IN  LimbsToInt(whole.q) + (IF whole.lost THEN 1 ELSE 0)

(***************************************************************************)
(* JS Date: day number <-> civil date                                      *)
(***************************************************************************)
\* day number of the civil date y-m-d, m in 1..12 (ECMAScript MakeDay)
DaysOf[y \in Int, m \in Int, d \in Int] ==
  LET yy  == IF m <= 2 THEN y - 1 ELSE y
      era == yy \div 400
      yoe == yy - era * 400
      mp  == IF m > 2 THEN m - 3 ELSE m + 9
      doy == (153 * mp + 2) \div 5 + d - 1
      doe == yoe * 365 + yoe \div 4 - yoe \div 100 + doy
  IN  era * 146097 + doe - 719468

DaysFromCivil(y, m, d) == DaysOf[y, m, d]

\* civil date of a day number (ECMAScript YearFromTime, MonthFromTime, DateFromTime)
\* in stages, each a function of the values of the stage before
CivilOfMonth[era \in Int, yoe \in Int, doy \in Int, mp \in Int] ==
  [year  |-> yoe + era * 400 + (IF mp >= 10 THEN 1 ELSE 0),
   month |-> IF mp < 10 THEN mp + 3 ELSE mp - 9,
   day   |-> doy - (153 * mp + 2) \div 5 + 1]

CivilOfDay[era \in Int, yoe \in Int, doy \in Int] ==
  CivilOfMonth[era, yoe, doy, (5 * doy + 2) \div 153]

CivilOfYear[era \in Int, doe \in Int, yoe \in Int] ==
  CivilOfDay[era, yoe, doe - (365 * yoe + yoe \div 4 - yoe \div 100)]

CivilOfEra[zz \in Int, era \in Int] ==
  LET doe == zz - era * 146097
  IN  CivilOfYear[era, doe,
                  (doe - doe \div 1460 + doe \div 36524 - doe \div 146096) \div 365]

CivilOf[z \in Int] == CivilOfEra[z + 719468, (z + 719468) \div 146097]

CivilFromDays(z) == CivilOf[z]

\* Date.prototype.getFullYear / getMonth (0-based) / getDate
getFullYear(date) == CivilFromDays(date).year

getMonth(date) == CivilFromDays(date).month - 1

getDate(date) == CivilFromDays(date).day

\* new Date(year, monthIndex, day): month and day overflow are normalised
NewDate(year, monthIndex, day) ==
  DaysFromCivil(year + monthIndex \div 12, (monthIndex % 12) + 1, 1) + day - 1

(***************************************************************************)
(* 4.1 Time-value primitives                                               *)
(***************************************************************************)
\* monthlyRate = annualRate / 100 / 12, annualRate a whole percentage
MonthlyRate(annualRate) == Rat(annualRate, 1200)

\* 1 + rate
Growth(rate) == [n |-> rate.d + rate.n, d |-> rate.d]

\* Math.pow(1 + rate, periods) for a whole number of periods
GrowthPow(rate, periods) ==
  [n |-> Pow(Growth(rate).n, periods), d |-> Pow(Growth(rate).d, periods)]

calculateFutureValue(presentValue, rate, periods) ==
  IF rate.n = 0 THEN RatOfInt(presentValue)
  ELSE RatMul(RatOfInt(presentValue), GrowthPow(rate, periods))

\* calculateAnnuityFutureValue with the sign of the growth factor reversed
calculateAnnuityFutureValue_Discount(pmt, rate, periods) ==
  IF rate.n = 0 THEN RatOfInt(pmt * periods)
  ELSE RatMul(RatOfInt(pmt),
              RatDiv(RatSub(RatOfInt(1), GrowthPow(rate, periods)), rate))

calculateAnnuityFutureValue(pmt, rate, periods) ==
  IF rate.n = 0 THEN RatOfInt(pmt * periods)
  ELSE RatMul(RatOfInt(pmt),
              RatDiv(RatSub(GrowthPow(rate, periods), RatOfInt(1)), rate))

\* A number the model holds exactly, and a number it holds as the double the
\* code computes.
Exact(q) == [float |-> FALSE, q |-> q]

Float(x) == [float |-> TRUE, x |-> x]

\* an amount of c hundredths read from a column or a form: the double c / 100
Amount(c) == DoubleOf(c, 100)

\* futureValue - presentValue in doubles, for amounts futureValue > presentValue
\* given in hundredths
AmountDifference(futureValue, presentValue) ==
  IF presentValue = 0 THEN Amount(futureValue)
  ELSE IF futureValue = 0 THEN Amount(-presentValue)
  ELSE IF presentValue > 0 THEN DoubleSub(Amount(futureValue), Amount(presentValue))
  ELSE IF futureValue < 0 THEN DoubleSub(Amount(-presentValue), Amount(-futureValue))
  ELSE DoubleAdd(Amount(futureValue), Amount(-presentValue))

\* futureValue and presentValue are amounts in hundredths; the result is in
\* hundredths when exact and in units when a double
calculatePayment(futureValue, presentValue, rate, periods) ==
  IF periods <= 0 THEN Exact(RatOfInt(0))
  ELSE
    LET futureValueOfInitial == calculateFutureValue(presentValue, rate, periods)
        remainingNeeded == RatSub(RatOfInt(futureValue), futureValueOfInitial)
    IN  IF remainingNeeded.n <= 0 THEN Exact(RatOfInt(0))
        ELSE IF rate.n = 0
          THEN Float(DoubleDivInt(AmountDifference(futureValue, presentValue), periods))
        ELSE Exact(RatDiv(remainingNeeded,
                          RatDiv(RatSub(GrowthPow(rate, periods), RatOfInt(1)), rate)))

\* Math.ceil(payment * 100), the number of hundredths
CeilTimes100(pmt) ==
  IF pmt.float THEN DoubleCeil(DoubleTimes100(pmt.x)) ELSE Ceil(pmt.q)

\* The values a period count can take, as far as the code reads them.
Infinity == [kind |-> "Infinity", over |-> TRUE, ceil |-> 0]

NegInfinity == [kind |-> "-Infinity", over |-> FALSE, ceil |-> 0]

NaN == [kind |-> "NaN", over |-> FALSE, ceil |-> 0]

Finite(c, o) == [kind |-> "finite", over |-> o, ceil |-> c]

\* isFinite(periods)
isFinite(periods) == periods.kind = "finite"

\* least n in k..MaxExp with (g.n/g.d)^n >= x.n/x.d, where gn/gd = (g.n/g.d)^k;
\* -1 when there is none
RECURSIVE LogCeilFrom(_, _, _, _, _)
LogCeilFrom(x, g, gn, gd, k) ==
  IF x.n * gd <= x.d * gn THEN k
  ELSE IF k >= MaxExp THEN -1
  ELSE LogCeilFrom(x, g, gn * g.n, gd * g.d, k + 1)

\* ceil(Math.log(x) / Math.log(g)) for rationals x >= 1 and g > 1
LogCeil(x, g) == LogCeilFrom(x, g, 1, 1, 0)

\* Math.log(x) / Math.log(1 + rate) for x > 0, rate > 0.  For x < 1 the
\* quotient is negative: -log(1/x)/log(1 + rate), whose ceiling is at most 0.
\* A quotient beyond MaxExp is outside what the model evaluates: it has no value
\* here (CHOOSE over the empty set), and the input sets leave such goals out.
LogQuotient(x, rate) ==
  LET big == IF x.n >= x.d THEN x ELSE Rat(x.d, x.n)
      up == LogCeil(big, Growth(rate))
      exact == GrowthPow(rate, up) = big
  IN  IF up = -1 THEN CHOOSE q \in {} : TRUE
      ELSE IF x.n >= x.d THEN Finite(up, FALSE)
      ELSE Finite(IF exact THEN -up ELSE 1 - up, FALSE)

\* whether LogQuotient(x, rate) lies within what the model evaluates
LogEvaluable(x, rate) ==
  LogCeil(IF x.n >= x.d THEN x ELSE Rat(x.d, x.n), Growth(rate)) # -1

calculatePeriods(rate, pmt, presentValue, futureValue) ==
  IF pmt <= 0 THEN
    IF rate.n = 0 THEN Infinity
    ELSE IF presentValue <= 0 THEN Infinity
    ELSE IF futureValue = 0 THEN NegInfinity
    ELSE IF futureValue < 0 THEN NaN
    ELSE LogQuotient(Rat(futureValue, presentValue), rate)
  ELSE IF rate.n = 0 THEN
    Finite(Ceil(Rat(futureValue - presentValue, pmt)),
           futureValue - presentValue > PeriodCeiling * pmt)
  ELSE
    LET num == pmt * rate.d + futureValue * rate.n
        den == pmt * rate.d + presentValue * rate.n
    IN  IF den = 0 THEN (IF num > 0 THEN Infinity ELSE IF num = 0 THEN NaN ELSE Infinity)
        ELSE IF Rat(num, den).n <= 0 THEN Infinity
        ELSE LogQuotient(Rat(num, den), rate)

(***************************************************************************)
(* 4.2 Calendar / period model                                             *)
(***************************************************************************)
\* getContributionStartDate a month after the day of creation
getContributionStartDate_SameDay(goalCreatedAt) ==
  NewDate(getFullYear(goalCreatedAt), getMonth(goalCreatedAt) + 1, getDate(goalCreatedAt))

getContributionStartDate(goalCreatedAt) ==
  NewDate(getFullYear(goalCreatedAt), getMonth(goalCreatedAt) + 1, 1)

\* calculateContributionPeriods counting the target month only when the target
\* day is after the first
calculateContributionPeriods_AfterFirst(contributionStartDate, targetDate) ==
  LET startYear == getFullYear(contributionStartDate)
      startMonth == getMonth(contributionStartDate)
      targetYear == getFullYear(targetDate)
      targetMonth == getMonth(targetDate)
      months == (targetYear - startYear) * 12 + (targetMonth - startMonth)
      periods == IF getDate(targetDate) > 1 THEN months + 1 ELSE months
  IN  Max(1, periods)

calculateContributionPeriods(contributionStartDate, targetDate) ==
  LET startYear == getFullYear(contributionStartDate)
      startMonth == getMonth(contributionStartDate)
      targetYear == getFullYear(targetDate)
      targetMonth == getMonth(targetDate)
      months == (targetYear - startYear) * 12 + (targetMonth - startMonth)
      periods == IF getDate(targetDate) >= 1 THEN months + 1 ELSE months
  IN  Max(1, periods)

(***************************************************************************)
(* 4.3 Goal projection functions                                           *)
(***************************************************************************)
\* calculateMonthlyPayment a cent below the payment rounded up
calculateMonthlyPayment_CentShort(targetAmount, initialAmount, targetDate, goalCreatedAt, annualRate) ==
  LET contributionStartDate == getContributionStartDate(goalCreatedAt)
      periods == calculateContributionPeriods(contributionStartDate, targetDate)
      monthlyRate == MonthlyRate(annualRate)
      pmt == calculatePayment(targetAmount, initialAmount, monthlyRate, periods)
  IN  Max(0, CeilTimes100(pmt) - 1)

calculateMonthlyPayment(targetAmount, initialAmount, targetDate, goalCreatedAt, annualRate) ==
  LET contributionStartDate == getContributionStartDate(goalCreatedAt)
      periods == calculateContributionPeriods(contributionStartDate, targetDate)
      monthlyRate == MonthlyRate(annualRate)
      pmt == calculatePayment(targetAmount, initialAmount, monthlyRate, periods)
  IN  Max(0, CeilTimes100(pmt))

\* new Date(Date.now() + 1000 * 60 * 60 * 24 * 365 * 100), read at clock value t
FarFuture(t) == t + SentinelDays

\* An Invalid Date (time value NaN): a day number outside the range of
\* +-100,000,000 days that a Date can hold.
InvalidDate == -100000001

\* setMonth with Math.floor(periods) months for a period count that is not whole
AddMonths_Floor(start, periods) ==
  IF ~isFinite(periods) THEN InvalidDate
  ELSE NewDate(getFullYear(start), getMonth(start) + periods.ceil - 1, getDate(start))

\* completionDate.setMonth(completionDate.getMonth() + Math.ceil(periods)) on a
\* copy of start; a non-finite argument makes the Date invalid
AddMonths(start, periods) ==
  IF ~isFinite(periods) THEN InvalidDate
  ELSE NewDate(getFullYear(start), getMonth(start) + periods.ceil, getDate(start))

\* calculateCompletionDate with the no-growth test made before the already-funded test
calculateCompletionDate_SentinelFirst(targetAmount, initialAmount, monthlyContribution, annualRate, goalCreatedAt, t) ==
  LET monthlyRate == MonthlyRate(annualRate)
      contributionStartDate == getContributionStartDate(goalCreatedAt)
      periods == calculatePeriods(monthlyRate, monthlyContribution, initialAmount, targetAmount)
  IN  IF monthlyContribution <= 0 /\ monthlyRate.n = 0 THEN FarFuture(t)
      ELSE IF initialAmount >= targetAmount THEN t
      ELSE IF ~isFinite(periods) \/ periods.over THEN FarFuture(t)
      ELSE AddMonths(contributionStartDate, periods)

\* calculateCompletionDate with the no-growth sentinel counted from the
\* contribution start date instead of the clock
calculateCompletionDate_SentinelFromStart(targetAmount, initialAmount, monthlyContribution, annualRate, goalCreatedAt, t) ==
  LET monthlyRate == MonthlyRate(annualRate)
      contributionStartDate == getContributionStartDate(goalCreatedAt)
      periods == calculatePeriods(monthlyRate, monthlyContribution, initialAmount, targetAmount)
  IN  IF initialAmount >= targetAmount THEN t
      ELSE IF monthlyContribution <= 0 /\ monthlyRate.n = 0 THEN FarFuture(contributionStartDate)
      ELSE IF ~isFinite(periods) \/ periods.over THEN FarFuture(t)
      ELSE AddMonths(contributionStartDate, periods)

\* calculateCompletionDate without the "periods > 1200" test
calculateCompletionDate_NoCeiling(targetAmount, initialAmount, monthlyContribution, annualRate, goalCreatedAt, t) ==
  LET monthlyRate == MonthlyRate(annualRate)
      contributionStartDate == getContributionStartDate(goalCreatedAt)
      periods == calculatePeriods(monthlyRate, monthlyContribution, initialAmount, targetAmount)
  IN  IF initialAmount >= targetAmount THEN t
      ELSE IF monthlyContribution <= 0 /\ monthlyRate.n = 0 THEN FarFuture(t)
      ELSE IF ~isFinite(periods) THEN FarFuture(t)
      ELSE AddMonths(contributionStartDate, periods)

\* the clock value t stands for the calls of new Date() and Date.now()
calculateCompletionDate(targetAmount, initialAmount, monthlyContribution, annualRate, goalCreatedAt, t) ==
  LET monthlyRate == MonthlyRate(annualRate)
      contributionStartDate == getContributionStartDate(goalCreatedAt)
      periods == calculatePeriods(monthlyRate, monthlyContribution, initialAmount, targetAmount)
  IN  IF initialAmount >= targetAmount THEN t
      ELSE IF monthlyContribution <= 0 /\ monthlyRate.n = 0 THEN FarFuture(t)
      ELSE IF ~isFinite(periods) \/ periods.over THEN FarFuture(t)
      ELSE AddMonths(contributionStartDate, periods)

\* new Date(year, monthIndex + 1, 0).getDate(): the days of the month
daysInMonth(date) == getDate(NewDate(getFullYear(date), getMonth(date) + 1, 0))

calculateMonthsBetweenDates(startDate, endDate) ==
  LET yearDiff == getFullYear(endDate) - getFullYear(startDate)
      monthDiff == getMonth(endDate) - getMonth(startDate)
      dayDiff == getDate(endDate) - getDate(startDate)
      totalMonths == IF dayDiff > 0
                       THEN RatAdd(RatOfInt(yearDiff * 12 + monthDiff),
                                   Rat(dayDiff, daysInMonth(endDate)))
                       ELSE RatOfInt(yearDiff * 12 + monthDiff)
  IN  IF totalMonths.n <= 0 THEN RatOfInt(0) ELSE totalMonths

\* a whole number of months as an exponent; a fraction of a month has no
\* exact power and no value here
WholeMonths(months) == CHOOSE k \in {months.n} : months.d = 1

\* calculateProjectedTotal without the target month among the periods
calculateProjectedTotal_NoTargetMonth(initialAmount, monthlyContribution, targetDate, goalCreatedAt, annualRate) ==
  LET contributionStartDate == getContributionStartDate(goalCreatedAt)
      periods == calculateContributionPeriods(contributionStartDate, targetDate) - 1
      monthlyRate == MonthlyRate(annualRate)
      monthsToContributionStart == calculateMonthsBetweenDates(goalCreatedAt, contributionStartDate)
      futureValueOfInitial ==
        IF monthlyRate.n = 0 THEN RatOfInt(initialAmount)
        ELSE RatMul(RatOfInt(initialAmount),
                    GrowthPow(monthlyRate, WholeMonths(monthsToContributionStart) + periods))
      futureValueOfContributions ==
        calculateAnnuityFutureValue(monthlyContribution, monthlyRate, periods)
  IN  Round(RatAdd(futureValueOfInitial, futureValueOfContributions))

\* calculateFutureValue(calculateFutureValue(initialAmount, r, months), r, periods)
\* is initialAmount * (1 + r)^months * (1 + r)^periods; the two powers are
\* multiplied as one power of the sum of the exponents.
calculateProjectedTotal(initialAmount, monthlyContribution, targetDate, goalCreatedAt, annualRate) ==
  LET contributionStartDate == getContributionStartDate(goalCreatedAt)
      periods == calculateContributionPeriods(contributionStartDate, targetDate)
      monthlyRate == MonthlyRate(annualRate)
      monthsToContributionStart == calculateMonthsBetweenDates(goalCreatedAt, contributionStartDate)
      futureValueOfInitial ==
        IF monthlyRate.n = 0 THEN RatOfInt(initialAmount)
        ELSE RatMul(RatOfInt(initialAmount),
                    GrowthPow(monthlyRate, WholeMonths(monthsToContributionStart) + periods))
      futureValueOfContributions ==
        calculateAnnuityFutureValue(monthlyContribution, monthlyRate, periods)
  IN  Round(RatAdd(futureValueOfInitial, futureValueOfContributions))

\* calculateProjectedInterest without Math.max(0, ...)
calculateProjectedInterest_NoFloor(initialAmount, monthlyContribution, targetDate, goalCreatedAt, annualRate) ==
  LET projectedTotal == calculateProjectedTotal(initialAmount, monthlyContribution,
                          targetDate, goalCreatedAt, annualRate)
      contributionStartDate == getContributionStartDate(goalCreatedAt)
      periods == calculateContributionPeriods(contributionStartDate, targetDate)
      totalContributions == initialAmount + (monthlyContribution * periods)
      interestEarned == projectedTotal - totalContributions
  IN  Round(RatOfInt(interestEarned))

calculateProjectedInterest(initialAmount, monthlyContribution, targetDate, goalCreatedAt, annualRate) ==
  LET projectedTotal == calculateProjectedTotal(initialAmount, monthlyContribution,
                          targetDate, goalCreatedAt, annualRate)
      contributionStartDate == getContributionStartDate(goalCreatedAt)
      periods == calculateContributionPeriods(contributionStartDate, targetDate)
      totalContributions == initialAmount + (monthlyContribution * periods)
      interestEarned == projectedTotal - totalContributions
  IN  Max(0, Round(RatOfInt(interestEarned)))

\* [...contributions].sort((a, b) => a.date.getTime() - b.date.getTime()):
\* a stable sort by date
RECURSIVE InsertByDate(_, _)
InsertByDate(sorted, c) ==
  IF sorted = << >> THEN <<c>>
  ELSE IF Head(sorted).date <= c.date
         THEN <<Head(sorted)>> \o InsertByDate(Tail(sorted), c)
         ELSE <<c>> \o sorted

RECURSIVE SortByDate(_)
SortByDate(list) ==
  IF list = << >> THEN << >>
  ELSE InsertByDate(SortByDate(SubSeq(list, 1, Len(list) - 1)), list[Len(list)])

\* calculateFutureValue(total, monthlyRate, months) of a running total that is
\* a fraction of a cent; the months are whole at a positive rate
calculateFutureValueOfTotal(total, rate, months) ==
  IF rate.n = 0 THEN total ELSE RatMul(total, GrowthPow(rate, WholeMonths(months)))

\* the loop of calculateCurrentTotal from contribution i on
RECURSIVE ProcessContributions(_, _, _, _, _)
ProcessContributions(sortedContributions, i, total, monthlyRate, asOfDate) ==
  IF i > Len(sortedContributions) THEN total
  ELSE LET contribution == sortedContributions[i]
           added == RatAdd(total, RatOfInt(contribution.amount))
           nextDate == IF i < Len(sortedContributions)
                         THEN sortedContributions[i + 1].date
                         ELSE asOfDate
           monthsToNext == calculateMonthsBetweenDates(contribution.date, nextDate)
       IN  ProcessContributions(sortedContributions, i + 1,
             IF monthsToNext.n > 0
               THEN calculateFutureValueOfTotal(added, monthlyRate, monthsToNext)
               ELSE added,
             monthlyRate, asOfDate)

\* calculateCurrentTotal on the contributions in the order of the input list
\* (contributionList is the parameter contributions)
calculateCurrentTotal_Unsorted(initialAmount, contributionList, annualRate, goalCreatedAt, asOfDate) ==
  LET monthlyRate == MonthlyRate(annualRate)
      goalStartDate == goalCreatedAt
      sortedContributions == contributionList
      firstEventDate == IF Len(sortedContributions) > 0
                          THEN sortedContributions[1].date
                          ELSE asOfDate
      monthsToFirstEvent == calculateMonthsBetweenDates(goalStartDate, firstEventDate)
      total == calculateFutureValueOfTotal(RatOfInt(initialAmount), monthlyRate,
                                           monthsToFirstEvent)
  IN  Round(ProcessContributions(sortedContributions, 1, total, monthlyRate, asOfDate))

calculateCurrentTotal(initialAmount, contributionList, annualRate, goalCreatedAt, asOfDate) ==
  LET monthlyRate == MonthlyRate(annualRate)
      goalStartDate == goalCreatedAt
      sortedContributions == SortByDate(contributionList)
      firstEventDate == IF Len(sortedContributions) > 0
                          THEN sortedContributions[1].date
                          ELSE asOfDate
      monthsToFirstEvent == calculateMonthsBetweenDates(goalStartDate, firstEventDate)
      total == calculateFutureValueOfTotal(RatOfInt(initialAmount), monthlyRate,
                                           monthsToFirstEvent)
  IN  Round(ProcessContributions(sortedContributions, 1, total, monthlyRate, asOfDate))

(***************************************************************************)
(* The contribution history: generateMonthlyData                           *)
(***************************************************************************)
\* A string is the sequence of its characters, each the number of its place in
\* the collation order localeCompare uses: the hyphen before the digits, the
\* digits before the letters.
Hyphen == 0

DigitChar(d) == 1 + d

Alphabet ==
  <<"a", "b", "c", "d", "e", "f", "g", "h", "i", "j", "k", "l", "m",
    "n", "o", "p", "q", "r", "s", "t", "u", "v", "w", "x", "y", "z">>

LetterChar(c) == 10 + (CHOOSE i \in DOMAIN Alphabet : Alphabet[i] = c)

\* `${n}` for a whole number n >= 0
DecimalString[n \in Nat] ==
  IF n < 10 THEN <<DigitChar(n)>> ELSE Append(DecimalString[n \div 10], DigitChar(n % 10))

WordString(letters) == [i \in DOMAIN letters |-> LetterChar(letters[i])]

\* `initial-${year}-${month}` and `monthly-${year}-${month}`, month 0-based
InitialKey(year, month) ==
  WordString(<<"i", "n", "i", "t", "i", "a", "l">>) \o <<Hyphen>> \o DecimalString[year]
    \o <<Hyphen>> \o DecimalString[month]

MonthKey(year, month) ==
  WordString(<<"m", "o", "n", "t", "h", "l", "y">>) \o <<Hyphen>> \o DecimalString[year]
    \o <<Hyphen>> \o DecimalString[month]

\* a.localeCompare(b): character by character, a proper prefix first
localeCompare[a \in Seq(Nat), b \in Seq(Nat)] ==
  LET from[i \in 1..(Len(a) + 1)] ==
        IF i > Len(a) /\ i > Len(b) THEN 0
        ELSE IF i > Len(a) THEN -1
        ELSE IF i > Len(b) THEN 1
        ELSE IF a[i] < b[i] THEN -1
        ELSE IF a[i] > b[i] THEN 1
        ELSE from[i + 1]
  IN  from[1]

\* the types Contribution, MonthlyData and YearGroup, as far as the function
\* reads and writes them
Contribution == [amount : Int, contribution_date : Int, is_confirmed : BOOLEAN]

MonthlyData ==
  [month : Seq(Nat), monthDisplay : [month : Int, year : Int], year : Int,
   pledgedAmount : Int, actualAmount : Int,
   status : {"confirmed", "pending", "missed", "future", "initial"},
   contributions : Seq(Contribution), isInitialAmount : BOOLEAN]

isContributionInMonth(contributionDate, year, month) ==
  getFullYear(contributionDate) = year /\ getMonth(contributionDate) = month

\* the comparator of months.sort
compareMonths(a, b) ==
  IF a.isInitialAmount /\ ~b.isInitialAmount THEN -1
  ELSE IF ~a.isInitialAmount /\ b.isInitialAmount THEN 1
  ELSE localeCompare[a.month, b.month]

\* months.sort(comparator): a stable sort, each row at the place given by the
\* number of rows the comparator puts before it
arrange[months \in Seq(MonthlyData), places \in Seq(Nat)] ==
  [k \in DOMAIN months |-> months[CHOOSE i \in DOMAIN months : places[i] = k]]

sortMonths[months \in Seq(MonthlyData)] ==
  LET n == Len(months)
      before(i, j) ==
        LET order == compareMonths(months[i], months[j])
        IN  order < 0 \/ (order = 0 /\ i < j)
      place(i) == Cardinality({j \in 1..n : before(j, i)}) + 1
  IN  arrange[months, [i \in 1..n |-> place(i)]]

\* the row of the initial amount (g is the parameter goal)
initialRow(g) ==
  [month |-> InitialKey(getFullYear(g.created_at), getMonth(g.created_at)),
   monthDisplay |-> [month |-> getMonth(g.created_at), year |-> getFullYear(g.created_at)],
   year |-> getFullYear(g.created_at),
   pledgedAmount |-> g.initial_amount,
   actualAmount |-> g.initial_amount,
   status |-> "initial",
   contributions |-> << >>,
   isInitialAmount |-> TRUE]

\* the row the loop pushes for the month of currentDate
monthlyRow(g, contributionList, today, currentDate) ==
  LET currentYear == getFullYear(currentDate)
      currentMonth == getMonth(currentDate)
      inMonth(c) == isContributionInMonth(c.contribution_date, currentYear, currentMonth)
      monthContributions == SelectSeq(contributionList, inMonth)
      sum[k \in 0..Len(monthContributions)] ==
        IF k = 0 THEN 0
        ELSE IF monthContributions[k].is_confirmed
               THEN sum[k - 1] + monthContributions[k].amount
               ELSE sum[k - 1]
      actualAmount == sum[Len(monthContributions)]
      hasUnconfirmed == \E k \in DOMAIN monthContributions : ~monthContributions[k].is_confirmed
  IN  [month |-> MonthKey(currentYear, currentMonth),
       monthDisplay |-> [month |-> currentMonth, year |-> currentYear],
       year |-> currentYear,
       pledgedAmount |-> g.monthly_pledge,
       actualAmount |-> actualAmount,
       status |-> IF currentDate > today THEN "future"
                  ELSE IF actualAmount > 0
                         THEN (IF hasUnconfirmed THEN "pending" ELSE "confirmed")
                         ELSE "missed",
       contributions |-> monthContributions,
       isInitialAmount |-> FALSE]

\* the loop of generateMonthlyData leaving out a target date that is the first
\* of its month
monthlyRows_BeforeTarget(g, contributionList, today) ==
  LET contributionStartDate == getContributionStartDate(g.created_at)
      targetDate == g.target_date
      from[currentDate \in Int] ==
        IF currentDate < targetDate
          THEN <<monthlyRow(g, contributionList, today, currentDate)>>
                 \o from[NewDate(getFullYear(currentDate), getMonth(currentDate) + 1,
                                 getDate(currentDate))]
          ELSE << >>
  IN  from[NewDate(getFullYear(contributionStartDate), getMonth(contributionStartDate), 1)]

\* while (currentDate <= targetDate) { ...; currentDate.setMonth(currentDate.getMonth() + 1) }
monthlyRows(g, contributionList, today) ==
  LET contributionStartDate == getContributionStartDate(g.created_at)
      targetDate == g.target_date
      from[currentDate \in Int] ==
        IF currentDate <= targetDate
          THEN <<monthlyRow(g, contributionList, today, currentDate)>>
                 \o from[NewDate(getFullYear(currentDate), getMonth(currentDate) + 1,
                                 getDate(currentDate))]
          ELSE << >>
  IN  from[NewDate(getFullYear(contributionStartDate), getMonth(contributionStartDate), 1)]

\* a year group of sorted rows, with its totals
yearGroup[year \in Int, sortedMonths \in Seq(MonthlyData)] ==
  LET totalPledged[k \in 0..Len(sortedMonths)] ==
        IF k = 0 THEN 0 ELSE totalPledged[k - 1] + sortedMonths[k].pledgedAmount
      totalActual[k \in 0..Len(sortedMonths)] ==
        IF k = 0 THEN 0 ELSE totalActual[k - 1] + sortedMonths[k].actualAmount
  IN  [year |-> year, months |-> sortedMonths,
       totalPledged |-> totalPledged[Len(sortedMonths)],
       totalActual |-> totalActual[Len(sortedMonths)]]

\* the year groups: the rows of each year, sorted, in ascending order of the years
groupByYear[monthlyData \in Seq(MonthlyData)] ==
  LET years == {monthlyData[i].year : i \in DOMAIN monthlyData}
      yearAt(k) == CHOOSE y \in years : Cardinality({z \in years : z < y}) = k - 1
      ofYear(y) ==
        LET inYear(m) == m.year = y
        IN  sortMonths[SelectSeq(monthlyData, inYear)]
  IN  [k \in 1..Cardinality(years) |-> yearGroup[yearAt(k), ofYear(yearAt(k))]]

generateMonthlyData(g, contributionList, today) ==
  LET initialRows == IF g.initial_amount > 0 THEN <<initialRow(g)>> ELSE << >>
  IN  groupByYear[initialRows \o monthlyRows(g, contributionList, today)]

\* calculateProgressPercentage without Math.min(100, ...)
calculateProgressPercentage_NoMin(currentAmount, targetAmount) ==
  IF targetAmount <= 0 THEN RatOfInt(0)
  ELSE LET pct == Rat(currentAmount * 100, targetAmount)
       IN  IF pct.n <= 0 THEN RatOfInt(0) ELSE pct

calculateProgressPercentage(currentAmount, targetAmount) ==
  IF targetAmount <= 0 THEN RatOfInt(0)
  ELSE LET pct == Rat(currentAmount * 100, targetAmount)
       IN  IF pct.n <= 0 THEN RatOfInt(0)
           ELSE IF pct.n >= 100 * pct.d THEN RatOfInt(100)
           ELSE pct

(***************************************************************************)
(* 4.4 Status classifier                                                   *)
(***************************************************************************)
\* projectedDate.toISOString().split('T')[0]: the calendar date of the instant
toISODate(date) == CivilFromDays(date)

\* new Date(today.getFullYear(), today.getMonth(), 1)
currentMonth(today) == NewDate(getFullYear(today), getMonth(today), 1)

\* the months since the start without the current month
monthsSinceStart_NoCurrentMonth(g, today) ==
  LET contributionStartDate == getContributionStartDate(g.created_at)
  IN  Max(0, (getFullYear(today) - getFullYear(contributionStartDate)) * 12
             + (getMonth(today) - getMonth(contributionStartDate)))

monthsSinceStart(g, today) ==
  LET contributionStartDate == getContributionStartDate(g.created_at)
  IN  Max(0, (getFullYear(today) - getFullYear(contributionStartDate)) * 12
             + (getMonth(today) - getMonth(contributionStartDate)) + 1)

expectedTotal(g, today) == g.initial_amount + g.monthly_pledge * monthsSinceStart(g, today)

\* the classifier with the contribution-start test made before the completed test
onTrackStatus_StartFirst(g, today) ==
  IF currentMonth(today) < getContributionStartDate(g.created_at) THEN "on-track"
  ELSE IF g.current_total >= g.target_amount THEN "completed"
  ELSE IF 10 * g.current_total >= 10 * expectedTotal(g, today) + g.monthly_pledge THEN "ahead"
  ELSE IF 10 * g.current_total < 10 * expectedTotal(g, today) - g.monthly_pledge THEN "behind"
  ELSE "on-track"

\* the classifier without the contribution-start test
onTrackStatus_NoStartTest(g, today) ==
  IF g.current_total >= g.target_amount THEN "completed"
  ELSE IF 10 * g.current_total >= 10 * expectedTotal(g, today) + g.monthly_pledge THEN "ahead"
  ELSE IF 10 * g.current_total < 10 * expectedTotal(g, today) - g.monthly_pledge THEN "behind"
  ELSE "on-track"

\* The status decided by calculateGoalMetrics.  tolerance = monthly_pledge * 0.1:
\* both comparisons are made on tenfold values, so the tolerance is exact.
onTrackStatus(g, today) ==
  IF g.current_total >= g.target_amount THEN "completed"
  ELSE IF currentMonth(today) < getContributionStartDate(g.created_at) THEN "on-track"
  ELSE IF 10 * g.current_total >= 10 * expectedTotal(g, today) + g.monthly_pledge THEN "ahead"
  ELSE IF 10 * g.current_total < 10 * expectedTotal(g, today) - g.monthly_pledge THEN "behind"
  ELSE "on-track"

\* calculateGoalMetrics projecting from the current total instead of the initial amount
calculateGoalMetrics_FromCurrent(g, t) ==
  LET progressPercentage == calculateProgressPercentage(g.current_total, g.target_amount)
      projectedDate == calculateCompletionDate(g.target_amount, g.current_total,
                         g.monthly_pledge, g.expected_return_rate, g.created_at, t)
  IN  IF projectedDate = InvalidDate
        THEN [progressPercentage |-> RatOfInt(0),
              onTrackStatus |-> "on-track",
              projectedCompletionDate |-> toISODate(g.target_date)]
        ELSE [progressPercentage |-> progressPercentage,
              onTrackStatus |-> onTrackStatus(g, t),
              projectedCompletionDate |-> toISODate(projectedDate)]

\* goal.current_total || 0 and goal.initial_amount || 0: the columns hold numbers
\* here, and 0 || 0 is 0.  t is the value new Date() returns.  toISOString throws
\* a RangeError on an Invalid Date, which the catch branch turns into the
\* fallback result.
calculateGoalMetrics(g, t) ==
  LET progressPercentage == calculateProgressPercentage(g.current_total, g.target_amount)
      projectedDate == calculateCompletionDate(g.target_amount, g.initial_amount,
                         g.monthly_pledge, g.expected_return_rate, g.created_at, t)
  IN  IF projectedDate = InvalidDate
        THEN [progressPercentage |-> RatOfInt(0),
              onTrackStatus |-> "on-track",
              projectedCompletionDate |-> toISODate(g.target_date)]
        ELSE [progressPercentage |-> progressPercentage,
              onTrackStatus |-> onTrackStatus(g, t),
              projectedCompletionDate |-> toISODate(projectedDate)]

\* goalStatusUtils.getStatusText: the label of the status badge
getStatusText(status) ==
  CASE status = "on-track" -> "On Track"
    [] status = "ahead" -> "Ahead of Schedule"
    [] status = "behind" -> "Behind Schedule"
    [] OTHER -> "Unknown"

\* goalStatusUtils.getStatusColor: the classes of the status badge, named by
\* their first class
getStatusColor(status) ==
  CASE status = "on-track" -> "bg-green-100"
    [] status = "ahead" -> "bg-blue-100"
    [] status = "behind" -> "bg-red-100"
    [] OTHER -> "bg-gray-100"

\* the values of the variable onTrackStatus of calculateGoalMetrics
OnTrackStatuses == {"on-track", "behind", "ahead", "completed"}

(***************************************************************************)
(* Inputs                                                                  *)
(***************************************************************************)
Day(y, m, d) == DaysFromCivil(y, m, d)

CreatedDates == {Day(2024, 1, 15), Day(2024, 12, 31)}

TargetDates == {Day(2024, 1, 10), Day(2024, 1, 20), Day(2024, 4, 10), Day(2025, 1, 1)}

NowDates == {Day(2024, 1, 15), Day(2024, 1, 30), Day(2024, 12, 31), Day(2025, 2, 27)}

Rates == {0, 100}

SmallAmounts == 0 .. MaxAmount

TargetAmounts == (1 .. MaxAmount) \cup {PeriodCeiling, PeriodCeiling + 1}

PledgeInputs == -1 .. MaxPledge

\* whether calculatePeriods(rate, pmt, pv, fv) lies within what the model evaluates
PeriodsEvaluable(rate, pmt, pv, fv) ==
  \/ rate.n = 0
  \/ pmt <= 0 /\ (pv <= 0 \/ fv <= 0)
  \/ pmt <= 0 /\ pv > 0 /\ fv > 0 /\ LogEvaluable(Rat(fv, pv), rate)
  \/ /\ pmt > 0
     /\ LET num == pmt * rate.d + fv * rate.n
            den == pmt * rate.d + pv * rate.n
        IN  den = 0 \/ Rat(num, den).n <= 0 \/ LogEvaluable(Rat(num, den), rate)

\* The goals of the projection runs.  At a positive rate (1 + r)^n is evaluated
\* exactly, which 32-bit integers allow for small amounts and n <= MaxExp only.
ProjectionEvaluable(g) ==
  \/ g.expected_return_rate = 0
  \/ /\ g.target_amount <= MaxAmount
     /\ calculateContributionPeriods(getContributionStartDate(g.created_at), g.target_date) <= MaxExp
     /\ \A p \in PledgeInputs :
          g.initial_amount >= g.target_amount
          \/ PeriodsEvaluable(MonthlyRate(g.expected_return_rate), p, g.initial_amount, g.target_amount)

ProjectionGoals ==
  { g \in [target_amount : TargetAmounts, initial_amount : SmallAmounts,
           current_total : {0}, monthly_pledge : {0},
           expected_return_rate : Rates, created_at : CreatedDates,
           target_date : TargetDates] :
      g.current_total = 0 /\ ProjectionEvaluable(g) }

NoPayment == [called |-> FALSE, value |-> 0]

NoCompletion == [called |-> FALSE, pledge |-> 0, at |-> 0, date |-> 0]

NoMetrics == [called |-> FALSE, at |-> 0, progressPercentage |-> RatOfInt(0),
              onTrackStatus |-> "on-track",
              projectedCompletionDate |-> [year |-> 0, month |-> 0, day |-> 0]]

(***************************************************************************)
(* The database: tables goals and contributions                            *)
(***************************************************************************)
\* primary keys of the two tables
GoalIds == 1 .. MaxGoals

ContributionIds == 1 .. MaxContributions

\* the amounts written to initial_amount and to contributions.amount
DbAmounts == 0 .. MaxDbAmount

\* no row with this key
NoRow == [present |-> FALSE]

\* a row of goals, reduced to the columns update_goal_total reads and writes
GoalRow(initial, total) ==
  [present |-> TRUE, initial_amount |-> initial, current_total |-> total]

\* a row of contributions
ContributionRow(gid, amount, confirmed) ==
  [present |-> TRUE, goal_id |-> gid, amount |-> amount, is_confirmed |-> confirmed]

\* both tables empty
EmptyDb ==
  /\ goals = [id \in GoalIds |-> NoRow]
  /\ contributions = [id \in ContributionIds |-> NoRow]

(***************************************************************************)
(* Recorded calls of the calendar functions                                *)
(***************************************************************************)
NoProjected == [called |-> FALSE, pledge |-> 0, value |-> 0]

NoStarted == [called |-> FALSE, createdAt |-> 0, value |-> 0]

NoCounted == [called |-> FALSE, start |-> 0, target |-> 0, value |-> 0]

NoProgress == [called |-> FALSE, currentAmount |-> 0, targetAmount |-> 0,
               value |-> RatOfInt(0)]

\* calculateProgressPercentage has not been called
ProgressIdle == progress = NoProgress

\* the dollar-rounding calculateMonthlyPayment before its call
NoLoop == [pc |-> "idle", targetAmount |-> 0, initialAmount |-> 0, annualRate |-> 0,
           targetDate |-> 0, today |-> 0, remainingNeeded |-> RatOfInt(0),
           roundedPayment |-> 0, months |-> 0, currentAmount |-> RatOfInt(0),
           completionDate |-> 0, result |-> 0]

\* the dollar-rounding calculateMonthlyPayment has not been called
LoopIdle == loop = NoLoop

\* neither calendar function has been called
CalendarIdle ==
  /\ started = NoStarted
  /\ counted = NoCounted

NoInterest == [called |-> FALSE, pledge |-> 0, value |-> 0]

\* calculateProjectedInterest has not been called
InterestIdle == interest = NoInterest

NoBetween == [called |-> FALSE, startDate |-> 0, endDate |-> 0, value |-> [n |-> 0, d |-> 1]]

\* calculateMonthsBetweenDates has not been called
BetweenIdle == between = NoBetween

NoCurrent ==
  [called |-> FALSE, initialAmount |-> 0, contributions |-> << >>, annualRate |-> 0,
   goalCreatedAt |-> 0, asOfDate |-> 0, value |-> 0]

\* calculateCurrentTotal has no arguments yet
CurrentIdle == current = NoCurrent

NoHistory ==
  [called |-> FALSE,
   goal |-> [initial_amount |-> 0, monthly_pledge |-> 0, created_at |-> 0, target_date |-> 0],
   contributions |-> << >>, today |-> 0, result |-> << >>]

\* generateMonthlyData has no arguments yet
HistoryIdle == history = NoHistory

\* the users that sign in; null is no user
Users == {"a", "b"}

NoUser == "null"

\* useState([]), useState(true), no user, nothing called: the hook before it is mounted
NoHook ==
  [user |-> NoUser, goals |-> << >>, from |-> 0, loading |-> TRUE, calls |-> << >>,
   writes |-> << >>, table |-> [u \in Users |-> 0], authChanges |-> 0]

\* no component uses the hook
HookIdle == hook = NoHook

(***************************************************************************)
(* The projection engine applied to a goal, under a running clock          *)
(***************************************************************************)
Init ==
  /\ goal \in ProjectionGoals
  /\ now \in {t \in NowDates : t >= goal.created_at}
  /\ ticks = 0
  /\ payment = NoPayment
  /\ completion = NoCompletion
  /\ metrics = NoMetrics
  /\ EmptyDb
  /\ CalendarIdle
  /\ projected = NoProjected /\ ProgressIdle /\ LoopIdle /\ InterestIdle /\ BetweenIdle /\ CurrentIdle /\ HistoryIdle /\ HookIdle

\* the ambient clock moves on by a day
Tick ==
  /\ ticks < MaxTicks
  /\ now' = now + 1
  /\ ticks' = ticks + 1
  /\ UNCHANGED <<goal, payment, completion, metrics, dbVars, calendarVars, totalVars, progressVars, loopVars, interestVars, betweenVars, currentVars, historyVars, hookVars>>

\* calculateMonthlyPayment(goal.target_amount, goal.initial_amount, targetDate, goal.created_at, rate)
CallMonthlyPayment ==
  /\ payment' = [called |-> TRUE,
                 value |-> calculateMonthlyPayment(goal.target_amount, goal.initial_amount,
                             goal.target_date, goal.created_at, goal.expected_return_rate)]
  /\ UNCHANGED <<now, ticks, goal, completion, metrics, dbVars, calendarVars, totalVars, progressVars, loopVars, interestVars, betweenVars, currentVars, historyVars, hookVars>>

\* calculateCompletionDate(target, initial, pledge, rate, created_at) with a pledge
\* that is an input, or the payment calculateMonthlyPayment returned
CallCompletionDate ==
  /\ \E p \in PledgeInputs \cup {q \in {payment.value} : payment.called} :
       completion' = [called |-> TRUE, pledge |-> p, at |-> now,
                      date |-> calculateCompletionDate(goal.target_amount, goal.initial_amount,
                                 p, goal.expected_return_rate, goal.created_at, now)]
  /\ UNCHANGED <<now, ticks, goal, payment, metrics, dbVars, calendarVars, totalVars, progressVars, loopVars, interestVars, betweenVars, currentVars, historyVars, hookVars>>

Next == Tick \/ CallMonthlyPayment \/ CallCompletionDate

Spec == Init /\ [][Next]_vars


(***************************************************************************)
(* The status classifier applied to a goal, under a running clock          *)
(***************************************************************************)
StatusTargets == {MaxAmount + 1, MaxStatusTotal + 1}

\* the instants of the status runs: those of the projection runs and the last
\* days of February 2024, the first contribution month of a goal created in
\* January 2024
StatusNowDates == NowDates \cup {Day(2024, 2, 28)}

\* The classifier hands the rate to calculateCompletionDate only; the goals of
\* these runs carry no interest.
StatusGoals ==
  [target_amount : StatusTargets, initial_amount : 0 .. 1,
   current_total : 0 .. MaxStatusTotal, monthly_pledge : 0 .. MaxStatusPledge,
   expected_return_rate : {0}, created_at : CreatedDates,
   target_date : {Day(2025, 1, 1)}]

InitStatus ==
  /\ goal \in StatusGoals
  /\ now \in {t \in StatusNowDates : t >= goal.created_at}
  /\ ticks = 0
  /\ payment = NoPayment
  /\ completion = NoCompletion
  /\ metrics = NoMetrics
  /\ EmptyDb
  /\ CalendarIdle
  /\ projected = NoProjected /\ ProgressIdle /\ LoopIdle /\ InterestIdle /\ BetweenIdle /\ CurrentIdle /\ HistoryIdle /\ HookIdle

\* calculateGoalMetrics(goal), today = new Date()
CallGoalMetrics ==
  /\ LET m == calculateGoalMetrics(goal, now)
     IN  metrics' = [called |-> TRUE, at |-> now,
                     progressPercentage |-> m.progressPercentage,
                     onTrackStatus |-> m.onTrackStatus,
                     projectedCompletionDate |-> m.projectedCompletionDate]
  /\ UNCHANGED <<now, ticks, goal, payment, completion, dbVars, calendarVars, totalVars, progressVars, loopVars, interestVars, betweenVars, currentVars, historyVars, hookVars>>

NextStatus == Tick \/ CallGoalMetrics

SpecStatus == InitStatus /\ [][NextStatus]_vars

(***************************************************************************)
(* The writes of the application and the trigger update_goal_total         *)
(***************************************************************************)
\* the engine is not called in the runs of the other specifications
EngineIdle ==
  /\ goal = [target_amount |-> 1, initial_amount |-> 0, current_total |-> 0,
             monthly_pledge |-> 0, expected_return_rate |-> 0,
             created_at |-> Day(2024, 1, 15), target_date |-> Day(2025, 1, 1)]
  /\ now = Day(2024, 1, 15)
  /\ ticks = 0
  /\ payment = NoPayment
  /\ completion = NoCompletion
  /\ metrics = NoMetrics

engineVars == <<now, ticks, goal, payment, completion, metrics>>

\* SELECT COALESCE(SUM(amount), 0) FROM contributions
\*   WHERE goal_id = gid AND is_confirmed = true, over the table contents c
RECURSIVE SumConfirmedOver(_, _, _)
SumConfirmedOver(c, gid, ids) ==
  IF ids = {} THEN 0
  ELSE LET id == CHOOSE i \in ids : TRUE
           row == c[id]
           amount == IF row.present /\ row.goal_id = gid /\ row.is_confirmed
                     THEN row.amount ELSE 0
       IN  amount + SumConfirmedOver(c, gid, ids \ {id})

SumConfirmed(c, gid) == SumConfirmedOver(c, gid, ContributionIds)

\* The trigger function, run after a write that left the contributions table as
\* c, with gid = COALESCE(NEW.goal_id, OLD.goal_id): UPDATE goals SET
\* current_total = initial_amount + (sum of confirmed amounts) WHERE id = gid.
update_goal_total(g, c, gid) ==
  IF g[gid].present
    THEN [g EXCEPT ![gid].current_total = g[gid].initial_amount + SumConfirmed(c, gid)]
    ELSE g

\* createGoalInDb: rejects target_amount <= 0 and monthly_pledge <= 0, else
\* inserts the row with current_total = initial_amount || 0
CreateGoal ==
  /\ \E id \in GoalIds, target \in 0 .. 1, pledge \in 0 .. 1, initial \in DbAmounts :
       /\ ~goals[id].present
       /\ IF target <= 0 \/ pledge <= 0
            THEN UNCHANGED goals
            ELSE goals' = [goals EXCEPT ![id] = GoalRow(initial, initial)]
  /\ UNCHANGED <<contributions, engineVars, calendarVars, totalVars, progressVars, loopVars, interestVars, betweenVars, currentVars, historyVars, hookVars>>

\* EditGoal.handleSubmit: UPDATE goals SET ..., initial_amount = ... WHERE id =
\* goal.id; current_total is not among the columns it writes
EditGoal ==
  /\ \E id \in GoalIds, initial \in DbAmounts :
       /\ goals[id].present
       /\ goals' = [goals EXCEPT ![id].initial_amount = initial]
  /\ UNCHANGED <<contributions, engineVars, calendarVars, totalVars, progressVars, loopVars, interestVars, betweenVars, currentVars, historyVars, hookVars>>

\* INSERT INTO contributions, then the trigger of the insert for NEW.goal_id
InsertContribution ==
  /\ \E id \in ContributionIds, gid \in GoalIds, amount \in DbAmounts \ {0},
        confirmed \in BOOLEAN :
       /\ ~contributions[id].present
       /\ goals[gid].present
       /\ contributions' = [contributions EXCEPT ![id] = ContributionRow(gid, amount, confirmed)]
       /\ goals' = update_goal_total(goals, contributions', gid)
  /\ UNCHANGED <<engineVars, calendarVars, totalVars, progressVars, loopVars, interestVars, betweenVars, currentVars, historyVars, hookVars>>

\* UPDATE contributions SET goal_id, amount, is_confirmed WHERE id = ..., then
\* the trigger of the update: COALESCE(NEW.goal_id, OLD.goal_id) is NEW.goal_id
UpdateContribution ==
  /\ \E id \in ContributionIds, gid \in GoalIds, amount \in DbAmounts \ {0},
        confirmed \in BOOLEAN :
       /\ contributions[id].present
       /\ goals[gid].present
       /\ contributions' = [contributions EXCEPT ![id] = ContributionRow(gid, amount, confirmed)]
       /\ goals' = update_goal_total(goals, contributions', gid)
  /\ UNCHANGED <<engineVars, calendarVars, totalVars, progressVars, loopVars, interestVars, betweenVars, currentVars, historyVars, hookVars>>

\* DELETE FROM contributions WHERE id = ..., then the trigger of the delete: NEW
\* is null, so COALESCE(NEW.goal_id, OLD.goal_id) is OLD.goal_id
DeleteContribution ==
  /\ \E id \in ContributionIds :
       /\ contributions[id].present
       /\ contributions' = [contributions EXCEPT ![id] = NoRow]
       /\ goals' = update_goal_total(goals, contributions', contributions[id].goal_id)
  /\ UNCHANGED <<engineVars, calendarVars, totalVars, progressVars, loopVars, interestVars, betweenVars, currentVars, historyVars, hookVars>>

InitDb == EngineIdle /\ EmptyDb /\ CalendarIdle /\ projected = NoProjected /\ ProgressIdle /\ LoopIdle /\ InterestIdle /\ BetweenIdle /\ CurrentIdle /\ HistoryIdle /\ HookIdle

NextDb ==
  \/ CreateGoal
  \/ EditGoal
  \/ InsertContribution
  \/ UpdateContribution
  \/ DeleteContribution

SpecDb == InitDb /\ [][NextDb]_vars

(***************************************************************************)
(* The calendar functions applied to dates                                 *)
(***************************************************************************)
\* creation dates: every day of a December, and the first and last days of a
\* January, of a leap February and of another December
CalendarCreatedDates ==
  (Day(2023, 12, 1) .. Day(2023, 12, 31))
    \cup {Day(2024, 1, 1), Day(2024, 1, 31), Day(2024, 2, 1), Day(2024, 2, 29),
          Day(2024, 12, 1), Day(2024, 12, 31)}

\* whether date is the last day of its month
LastOfMonth(date) == getDate(date + 1) = 1

\* the first, the middle and the last day of the month
MonthDates(y, m) ==
  { date \in Day(y, m, 1) .. Day(y, m, 1) + 30 :
      getMonth(date) = m - 1 /\ (getDate(date) \in {1, 15} \/ LastOfMonth(date)) }

\* start and target dates
CalendarDates ==
  MonthDates(2023, 12) \cup MonthDates(2024, 1) \cup MonthDates(2024, 2)
    \cup MonthDates(2025, 1)

\* getContributionStartDate(createdAt)
CallContributionStartDate ==
  /\ \E createdAt \in CalendarCreatedDates :
       started' = [called |-> TRUE, createdAt |-> createdAt,
                   value |-> getContributionStartDate(createdAt)]
  /\ UNCHANGED <<counted, engineVars, dbVars, totalVars, progressVars, loopVars, interestVars, betweenVars, currentVars, historyVars, hookVars>>

\* calculateContributionPeriods(start, target), with a start that is an input or
\* the date getContributionStartDate returned
CallContributionPeriods ==
  /\ \E start \in CalendarDates \cup {d \in {started.value} : started.called},
        target \in CalendarDates :
       counted' = [called |-> TRUE, start |-> start, target |-> target,
                   value |-> calculateContributionPeriods(start, target)]
  /\ UNCHANGED <<started, engineVars, dbVars, totalVars, progressVars, loopVars, interestVars, betweenVars, currentVars, historyVars, hookVars>>

InitCalendar == EngineIdle /\ EmptyDb /\ CalendarIdle /\ projected = NoProjected /\ ProgressIdle /\ LoopIdle /\ InterestIdle /\ BetweenIdle /\ CurrentIdle /\ HistoryIdle /\ HookIdle

NextCalendar == CallContributionStartDate \/ CallContributionPeriods

SpecCalendar == InitCalendar /\ [][NextCalendar]_vars

(***************************************************************************)
(* calculateProjectedTotal applied to a goal                               *)
(***************************************************************************)
\* The goals of these runs.  At a positive rate (1 + r)^n is evaluated exactly
\* for n <= MaxExp + 1: the periods and the month before the first of them.
TotalTargetDates == TargetDates \cup {Day(2024, 6, 10)}

TotalGoals ==
  { g \in [target_amount : {MaxAmount}, initial_amount : SmallAmounts,
           current_total : {0}, monthly_pledge : {0},
           expected_return_rate : Rates, created_at : CreatedDates,
           target_date : TotalTargetDates] :
      \/ g.expected_return_rate = 0
      \/ calculateContributionPeriods(getContributionStartDate(g.created_at), g.target_date)
           <= MaxExp }

InitTotal ==
  /\ goal \in TotalGoals
  /\ now = Day(2024, 12, 31)
  /\ ticks = 0
  /\ payment = NoPayment
  /\ completion = NoCompletion
  /\ metrics = NoMetrics
  /\ EmptyDb
  /\ CalendarIdle
  /\ projected = NoProjected /\ ProgressIdle /\ LoopIdle /\ InterestIdle /\ BetweenIdle /\ CurrentIdle /\ HistoryIdle /\ HookIdle

\* calculateProjectedTotal(goal.initial_amount, pledge, targetDate, goal.created_at, rate)
\* with a pledge that is an input, or the payment calculateMonthlyPayment returned
CallProjectedTotal ==
  /\ \E p \in PledgeInputs \cup {q \in {payment.value} : payment.called} :
       projected' = [called |-> TRUE, pledge |-> p,
                     value |-> calculateProjectedTotal(goal.initial_amount, p,
                                 goal.target_date, goal.created_at,
                                 goal.expected_return_rate)]
  /\ UNCHANGED <<engineVars, dbVars, calendarVars, progressVars, loopVars, interestVars, betweenVars, currentVars, historyVars, hookVars>>

\* calculateProjectedInterest(goal.initial_amount, pledge, targetDate, goal.created_at, rate)
CallProjectedInterest ==
  /\ \E p \in PledgeInputs :
       interest' = [called |-> TRUE, pledge |-> p,
                    value |-> calculateProjectedInterest(goal.initial_amount, p,
                                goal.target_date, goal.created_at,
                                goal.expected_return_rate)]
  /\ UNCHANGED <<engineVars, dbVars, calendarVars, totalVars, progressVars, loopVars, betweenVars, currentVars, historyVars, hookVars>>

NextTotal == CallMonthlyPayment \/ CallProjectedTotal \/ CallProjectedInterest

SpecTotal == InitTotal /\ [][NextTotal]_vars

(***************************************************************************)
(* calculateMonthsBetweenDates applied to two dates                        *)
(***************************************************************************)
BetweenDates ==
  {Day(2023, 12, 15), Day(2024, 1, 1), Day(2024, 1, 15), Day(2024, 1, 31),
   Day(2024, 2, 1), Day(2024, 2, 15), Day(2024, 2, 29), Day(2024, 3, 31),
   Day(2024, 12, 31), Day(2025, 1, 1), Day(2025, 1, 10)}

InitBetween ==
  EngineIdle /\ EmptyDb /\ CalendarIdle /\ projected = NoProjected /\ ProgressIdle
  /\ LoopIdle /\ InterestIdle /\ BetweenIdle /\ CurrentIdle /\ HistoryIdle /\ HookIdle

\* calculateMonthsBetweenDates(startDate, endDate)
CallMonthsBetweenDates ==
  /\ \E s \in BetweenDates, e \in BetweenDates :
       between' = [called |-> TRUE, startDate |-> s, endDate |-> e,
                   value |-> calculateMonthsBetweenDates(s, e)]
  /\ UNCHANGED <<engineVars, dbVars, calendarVars, totalVars, progressVars, loopVars, interestVars, currentVars, historyVars, hookVars>>

NextBetween == CallMonthsBetweenDates

SpecBetween == InitBetween /\ [][NextBetween]_vars

(***************************************************************************)
(* calculateCurrentTotal applied to a list of contributions                *)
(***************************************************************************)
\* Dates whose gaps are whole months for calculateMonthsBetweenDates: the day
\* of the month never grows from one event to the next.
CurrentDates == {Day(2024, 1, 15), Day(2024, 2, 15), Day(2024, 3, 15), Day(2024, 4, 10)}

CurrentAsOfDates == {Day(2024, 3, 15), Day(2024, 5, 10)}

\* the contribution lists, in every order
ContributionLists ==
  UNION { [1..k -> [amount : 1..MaxDbAmount, date : CurrentDates]] : k \in 0..MaxContributions }

InitCurrent ==
  /\ EngineIdle /\ EmptyDb /\ CalendarIdle /\ projected = NoProjected /\ ProgressIdle
  /\ LoopIdle /\ InterestIdle /\ BetweenIdle /\ HistoryIdle /\ HookIdle
  /\ current \in [called : {FALSE}, initialAmount : {0, 2}, contributions : ContributionLists,
                  annualRate : Rates, goalCreatedAt : {Day(2024, 1, 15)},
                  asOfDate : CurrentAsOfDates, value : {0}]

\* calculateCurrentTotal(initialAmount, contributions, annualRate, goalCreatedAt, asOfDate)
CallCurrentTotal ==
  /\ current' = [current EXCEPT
       !.called = TRUE,
       !.value = calculateCurrentTotal(current.initialAmount, current.contributions,
                   current.annualRate, current.goalCreatedAt, current.asOfDate)]
  /\ UNCHANGED <<engineVars, dbVars, calendarVars, totalVars, progressVars, loopVars, interestVars, betweenVars, historyVars, hookVars>>

NextCurrent == CallCurrentTotal

SpecCurrent == InitCurrent /\ [][NextCurrent]_vars

(***************************************************************************)
(* generateMonthlyData applied to a goal and its contributions             *)
(***************************************************************************)
HistoryCreatedDates == {Day(2023, 10, 20), Day(2024, 1, 15), Day(2024, 12, 31)}

HistoryTargetDates ==
  {Day(2024, 1, 10), Day(2024, 2, 1), Day(2024, 4, 10), Day(2024, 12, 15),
   Day(2025, 1, 1), Day(2025, 3, 5)}

HistoryContributionDates == {Day(2024, 2, 20), Day(2024, 11, 5)}

HistoryContributionLists ==
  UNION { [1..k -> [amount : 1..MaxDbAmount, contribution_date : HistoryContributionDates,
                    is_confirmed : BOOLEAN]] : k \in 0..MaxHistoryContributions }

InitHistory ==
  /\ EngineIdle /\ EmptyDb /\ CalendarIdle /\ projected = NoProjected /\ ProgressIdle
  /\ LoopIdle /\ InterestIdle /\ BetweenIdle /\ CurrentIdle /\ HookIdle
  /\ history \in [called : {FALSE},
                  goal : [initial_amount : {0, 2}, monthly_pledge : {1},
                          created_at : HistoryCreatedDates, target_date : HistoryTargetDates],
                  contributions : HistoryContributionLists,
                  today : {Day(2024, 3, 15)},
                  result : {<< >>}]

\* generateMonthlyData(goal, contributions), read at the clock value today
CallGenerateMonthlyData ==
  /\ history' = [history EXCEPT
       !.called = TRUE,
       !.result = generateMonthlyData(history.goal, history.contributions, history.today)]
  /\ UNCHANGED <<engineVars, dbVars, calendarVars, totalVars, progressVars, loopVars, interestVars, betweenVars, currentVars, hookVars>>

NextHistory == CallGenerateMonthlyData

SpecHistory == InitHistory /\ [][NextHistory]_vars

(***************************************************************************)
(* The useGoals hook under changes of the user and responses in any order  *)
(***************************************************************************)
\* fetchGoals() of a render whose user is u, up to its await: without a user it
\* empties the list; with one it sends the query.  A call is numbered by its
\* place in hook.calls, and hook.from is the call that last set the goals.
fetchGoals(h, u) ==
  IF u = NoUser
    THEN [h EXCEPT !.goals = << >>, !.loading = FALSE, !.from = Len(h.calls) + 1,
                   !.calls = Append(@, [user |-> NoUser, status |-> "applied", data |-> 0])]
    ELSE [h EXCEPT !.loading = TRUE,
                   !.calls = Append(@, [user |-> u, status |-> "pending", data |-> 0])]

\* the hook is mounted without a user: the effect calls fetchGoals
InitHook ==
  /\ EngineIdle /\ EmptyDb /\ CalendarIdle /\ projected = NoProjected /\ ProgressIdle
  /\ LoopIdle /\ InterestIdle /\ BetweenIdle /\ CurrentIdle /\ HistoryIdle
  /\ hook = fetchGoals(NoHook, NoUser)

\* useAuth gives another user (sign-in, sign-out); the effect on [user] calls fetchGoals
UserChanges ==
  /\ hook.authChanges < MaxAuthChanges
  /\ Len(hook.calls) < MaxCalls
  /\ \E u \in (Users \cup {NoUser}) \ {hook.user} :
       hook' = fetchGoals([hook EXCEPT !.user = u, !.authChanges = @ + 1], u)
  /\ UNCHANGED <<engineVars, dbVars, calendarVars, totalVars, progressVars, loopVars, interestVars, betweenVars, currentVars, historyVars>>

\* refetch()
Refetch ==
  /\ Len(hook.calls) < MaxCalls
  /\ hook' = fetchGoals(hook, hook.user)
  /\ UNCHANGED <<engineVars, dbVars, calendarVars, totalVars, progressVars, loopVars, interestVars, betweenVars, currentVars, historyVars>>

\* createGoal, updateGoal or deleteGoal up to its await: nothing without a user
WriteGoal ==
  /\ hook.user # NoUser
  /\ Len(hook.writes) < MaxWrites
  /\ hook' = [hook EXCEPT !.writes = Append(@, [user |-> hook.user, status |-> "pending"])]
  /\ UNCHANGED <<engineVars, dbVars, calendarVars, totalVars, progressVars, loopVars, interestVars, betweenVars, currentVars, historyVars>>

\* the write is done in the table; the handler goes on and calls the fetchGoals
\* of the render it was started in
WriteResolves ==
  /\ Len(hook.calls) < MaxCalls
  /\ \E w \in DOMAIN hook.writes :
       /\ hook.writes[w].status = "pending"
       /\ hook' = fetchGoals([hook EXCEPT !.writes[w].status = "done",
                                          !.table[hook.writes[w].user] = @ + 1],
                             hook.writes[w].user)
  /\ UNCHANGED <<engineVars, dbVars, calendarVars, totalVars, progressVars, loopVars, interestVars, betweenVars, currentVars, historyVars>>

\* the write fails: a toast, no fetch
WriteRejects ==
  /\ \E w \in DOMAIN hook.writes :
       /\ hook.writes[w].status = "pending"
       /\ hook' = [hook EXCEPT !.writes[w].status = "failed"]
  /\ UNCHANGED <<engineVars, dbVars, calendarVars, totalVars, progressVars, loopVars, interestVars, betweenVars, currentVars, historyVars>>

\* the database answers the query of a call with the rows of its user
QueryRuns ==
  /\ \E c \in DOMAIN hook.calls :
       /\ hook.calls[c].status = "pending"
       /\ hook' = [hook EXCEPT !.calls[c].status = "read",
                               !.calls[c].data = hook.table[hook.calls[c].user]]
  /\ UNCHANGED <<engineVars, dbVars, calendarVars, totalVars, progressVars, loopVars, interestVars, betweenVars, currentVars, historyVars>>

\* the await of a call returns: setGoals(data.map(calculateGoalMetrics)), setLoading(false)
FetchResolves ==
  /\ \E c \in DOMAIN hook.calls :
       /\ hook.calls[c].status = "read"
       /\ hook' = [hook EXCEPT !.calls[c].status = "applied",
                               !.goals = <<[user_id |-> hook.calls[c].user,
                                            version |-> hook.calls[c].data]>>,
                               !.from = c,
                               !.loading = FALSE]
  /\ UNCHANGED <<engineVars, dbVars, calendarVars, totalVars, progressVars, loopVars, interestVars, betweenVars, currentVars, historyVars>>

\* the await of a call throws: a toast, setGoals([]), setLoading(false)
FetchRejects ==
  /\ \E c \in DOMAIN hook.calls :
       /\ hook.calls[c].status \in {"pending", "read"}
       /\ hook' = [hook EXCEPT !.calls[c].status = "failed",
                               !.goals = << >>,
                               !.from = c,
                               !.loading = FALSE]
  /\ UNCHANGED <<engineVars, dbVars, calendarVars, totalVars, progressVars, loopVars, interestVars, betweenVars, currentVars, historyVars>>

NextHook ==
  \/ UserChanges \/ Refetch \/ WriteGoal \/ WriteResolves \/ WriteRejects
  \/ QueryRuns \/ FetchResolves \/ FetchRejects

SpecHook == InitHook /\ [][NextHook]_vars

(***************************************************************************)
(* calculateProgressPercentage applied to two amounts                      *)
(***************************************************************************)
InitProgress == EngineIdle /\ EmptyDb /\ CalendarIdle /\ projected = NoProjected /\ ProgressIdle /\ LoopIdle /\ InterestIdle /\ BetweenIdle /\ CurrentIdle /\ HistoryIdle /\ HookIdle

\* calculateProgressPercentage(currentAmount, targetAmount)
CallProgressPercentage ==
  /\ \E currentAmount \in -2 .. MaxProgressCurrent, targetAmount \in -2 .. MaxProgressTarget :
       progress' = [called |-> TRUE, currentAmount |-> currentAmount,
                    targetAmount |-> targetAmount,
                    value |-> calculateProgressPercentage(currentAmount, targetAmount)]
  /\ UNCHANGED <<engineVars, dbVars, calendarVars, totalVars, loopVars, interestVars, betweenVars, currentVars, historyVars, hookVars>>

NextProgress == CallProgressPercentage

SpecProgress == InitProgress /\ [][NextProgress]_vars

(***************************************************************************)
(* The dollar-rounding calculateMonthlyPayment of interestCalculations.ts  *)
(* and the iterative calculateCompletionDate of dateCalculations.ts that   *)
(* it calls.  The amounts of these runs are whole dollars, the unit that   *)
(* Math.ceil rounds to here.  loop holds the local variables of the run    *)
(* and pc, the statement it is at:                                         *)
(*   "while"   the test of while (roundedPayment > 0)                      *)
(*   "months"  the test of while (currentAmount < targetAmount && ...)     *)
(*   "verify"  the statements after the call of calculateCompletionDate    *)
(*   "done"    returned                                                    *)
(***************************************************************************)
\* Math.max(1, Math.floor((targetDate - today) / (1000 * 60 * 60 * 24 * 30.44)))
monthsToTarget(targetDate, today) ==
  Max(1, ((targetDate - today) * 100) \div 3044)

\* remainingNeeded / ((Math.pow(1 + monthlyRate, monthsToTarget) - 1) / monthlyRate)
calculatedPayment(remainingNeeded, monthlyRate, months) ==
  RatDiv(remainingNeeded,
         RatDiv(RatSub(GrowthPow(monthlyRate, months), RatOfInt(1)), monthlyRate))

\* x < y for a rational x and an integer y
LessThanInt(x, y) == x.n < y * x.d

\* the statements after the call of calculateCompletionDate, without
\* roundedPayment += 1
VerifyPayment_NoIncrement(l) ==
  IF l.completionDate <= l.targetDate
    THEN [l EXCEPT !.pc = "done", !.result = Max(0, l.roundedPayment)]
  ELSE IF LessThanInt(l.remainingNeeded, l.roundedPayment)
    THEN [l EXCEPT !.pc = "done", !.result = Max(0, l.roundedPayment)]
  ELSE [l EXCEPT !.pc = "while"]

\* the statements after the call of calculateCompletionDate: break when the
\* completion date is on or before the target date; otherwise add a dollar and
\* break when the payment exceeds remainingNeeded
VerifyPayment(l) ==
  IF l.completionDate <= l.targetDate
    THEN [l EXCEPT !.pc = "done", !.result = Max(0, l.roundedPayment)]
  ELSE IF LessThanInt(l.remainingNeeded, l.roundedPayment + 1)
    THEN [l EXCEPT !.pc = "done", !.roundedPayment = l.roundedPayment + 1,
                   !.result = Max(0, l.roundedPayment + 1)]
  ELSE [l EXCEPT !.pc = "while", !.roundedPayment = l.roundedPayment + 1]

LoopTodayDates == {Day(2024, 1, 15), Day(2024, 7, 15)}

LoopTargetDates == {Day(2024, 1, 25), Day(2024, 3, 16), Day(2024, 9, 14), Day(2024, 10, 16)}

\* The inputs of the runs.  At a positive rate (1 + r)^n is evaluated exactly
\* for n <= MaxLoopMonths.
LoopInputs ==
  { i \in [targetAmount : 1 .. MaxLoopTarget, initialAmount : 0 .. MaxLoopInitial,
           targetDate : LoopTargetDates, annualRate : Rates, today : LoopTodayDates] :
      i.annualRate = 0 \/ monthsToTarget(i.targetDate, i.today) <= MaxLoopMonths }

InitLoop == EngineIdle /\ EmptyDb /\ CalendarIdle /\ projected = NoProjected /\ ProgressIdle /\ LoopIdle /\ InterestIdle /\ BetweenIdle /\ CurrentIdle /\ HistoryIdle /\ HookIdle

\* calculateMonthlyPayment(targetAmount, initialAmount, targetDate, annualRate), from
\* its first statement to the first test of the while loop or an early return
EnterMonthlyPayment ==
  /\ loop.pc = "idle"
  /\ \E i \in LoopInputs :
       LET months == monthsToTarget(i.targetDate, i.today)
           monthlyRate == MonthlyRate(i.annualRate)
           futureValueOfInitial ==
             RatMul(RatOfInt(i.initialAmount), GrowthPow(monthlyRate, months))
           remainingNeeded == RatSub(RatOfInt(i.targetAmount), futureValueOfInitial)
           run == [NoLoop EXCEPT !.targetAmount = i.targetAmount,
                                 !.initialAmount = i.initialAmount,
                                 !.annualRate = i.annualRate,
                                 !.targetDate = i.targetDate,
                                 !.today = i.today,
                                 !.remainingNeeded = remainingNeeded]
       IN  loop' = IF remainingNeeded.n <= 0
                     THEN [run EXCEPT !.pc = "done", !.result = 0]
                   ELSE IF monthlyRate.n = 0
                     THEN [run EXCEPT !.pc = "done",
                                      !.result = Ceil(RatDiv(remainingNeeded, RatOfInt(months)))]
                   ELSE [run EXCEPT !.pc = "while",
                                    !.roundedPayment =
                                      Ceil(calculatedPayment(remainingNeeded, monthlyRate, months))]
  /\ UNCHANGED <<engineVars, dbVars, calendarVars, totalVars, progressVars, interestVars, betweenVars, currentVars, historyVars, hookVars>>

\* The test of while (roundedPayment > 0) and, when it holds, the entry of
\* calculateCompletionDate(targetAmount, initialAmount, roundedPayment, annualRate).
\* The call is made with roundedPayment > 0 and monthlyRate # 0, which the
\* branches between the already-at-target test and the iteration exclude.
TestPayment ==
  /\ loop.pc = "while"
  /\ loop' = IF loop.roundedPayment > 0
               THEN IF loop.initialAmount >= loop.targetAmount
                      THEN [loop EXCEPT !.pc = "verify", !.completionDate = loop.today]
                    ELSE [loop EXCEPT !.pc = "months", !.months = 0,
                                      !.currentAmount = RatOfInt(loop.initialAmount)]
             ELSE [loop EXCEPT !.pc = "done", !.result = Max(0, loop.roundedPayment)]
  /\ UNCHANGED <<engineVars, dbVars, calendarVars, totalVars, progressVars, interestVars, betweenVars, currentVars, historyVars, hookVars>>

\* The test of while (currentAmount < targetAmount && months < maxMonths): one
\* month of growth and a contribution, or the return of today moved on by months.
StepMonth ==
  /\ loop.pc = "months"
  /\ loop' = IF LessThanInt(loop.currentAmount, loop.targetAmount) /\ loop.months < maxMonths
               THEN [loop EXCEPT !.currentAmount =
                                   RatAdd(RatMul(loop.currentAmount,
                                                 Growth(MonthlyRate(loop.annualRate))),
                                          RatOfInt(loop.roundedPayment)),
                                 !.months = loop.months + 1]
             ELSE [loop EXCEPT !.pc = "verify",
                               !.completionDate =
                                 NewDate(getFullYear(loop.today),
                                         getMonth(loop.today) + loop.months,
                                         getDate(loop.today))]
  /\ UNCHANGED <<engineVars, dbVars, calendarVars, totalVars, progressVars, interestVars, betweenVars, currentVars, historyVars, hookVars>>

\* the statements of the while loop after the call
Verify ==
  /\ loop.pc = "verify"
  /\ loop' = VerifyPayment(loop)
  /\ UNCHANGED <<engineVars, dbVars, calendarVars, totalVars, progressVars, interestVars, betweenVars, currentVars, historyVars, hookVars>>

\* the statements of a call that has been made
RunLoop == TestPayment \/ StepMonth \/ Verify

NextLoop == EnterMonthlyPayment \/ TestPayment \/ StepMonth \/ Verify

SpecLoop == InitLoop /\ [][NextLoop]_vars

\* the function is synchronous: once called, its next statement is executed
SpecLoopFair == SpecLoop /\ WF_vars(RunLoop)

(***************************************************************************)
(* Properties of the projection functions (checked under Spec)             *)
(***************************************************************************)
\* the goal satisfies the data model of the engine: amounts not negative, a
\* positive target, a target date after the creation date, a rate in [0, 100]
ValidGoal ==
  /\ goal.target_amount > 0
  /\ goal.initial_amount >= 0
  /\ goal.target_date > goal.created_at
  /\ goal.expected_return_rate \in 0 .. 100

\* C1 (round trip): for a goal with initialAmount < targetAmount and targetDate
\* after createdAt, the completion date calculateCompletionDate returns for the
\* payment calculateMonthlyPayment returned is on or before targetDate.
C1_RoundTrip ==
  ( /\ payment.called
    /\ completion.called
    /\ completion.pledge = payment.value
    /\ goal.initial_amount < goal.target_amount
    /\ ValidGoal )
  => completion.date <= goal.target_date

\* C2 (already funded): for a goal with initialAmount >= targetAmount, at every
\* rate and target date, calculateMonthlyPayment returns 0 and
\* calculateCompletionDate returns the clock value of the call.
C2_AlreadyFunded ==
  goal.initial_amount >= goal.target_amount
  => /\ payment.called => payment.value = 0
     /\ completion.called => completion.date = completion.at

C2_Witness ==
  /\ goal.initial_amount >= goal.target_amount
  /\ goal.expected_return_rate > 0
  /\ payment.called
  /\ completion.called
  /\ completion.pledge <= 0
  /\ completion.at > goal.created_at

\* C3 (monotonicity): at a fixed clock value, a larger pledge never gives a later
\* completion date than a smaller one, the far-future sentinel included.
C3_Monotone ==
  ( completion.called /\ ValidGoal /\ completion.pledge >= 0 )
  => \A p \in PledgeInputs \cap Nat :
       LET other == calculateCompletionDate(goal.target_amount, goal.initial_amount, p,
                      goal.expected_return_rate, goal.created_at, completion.at)
       IN  /\ p >= completion.pledge => other <= completion.date
           /\ p <= completion.pledge => other >= completion.date

\* C8 (unreachable goal): with initialAmount < targetAmount, monthlyContribution <= 0
\* and rate 0, calculateCompletionDate returns the clock value of the call plus
\* 100 * 365 days.
C8_Unreachable ==
  ( /\ completion.called
    /\ goal.initial_amount < goal.target_amount
    /\ completion.pledge <= 0
    /\ goal.expected_return_rate = 0 )
  => completion.date = completion.at + SentinelDays

C8_Witness ==
  /\ completion.called
  /\ goal.initial_amount < goal.target_amount
  /\ completion.pledge <= 0
  /\ goal.expected_return_rate = 0
  /\ completion.date = completion.at + SentinelDays
  /\ completion.at > goal.created_at

\* C9 (period counts never escape): with initialAmount < targetAmount, whenever
\* calculatePeriods yields a non-finite value or one above 1200 the result is the
\* far-future sentinel, and in every other case it is a valid date.
C9_NoEscape ==
  ( completion.called /\ goal.initial_amount < goal.target_amount )
  => LET periods == calculatePeriods(MonthlyRate(goal.expected_return_rate),
                      completion.pledge, goal.initial_amount, goal.target_amount)
     IN  /\ (~isFinite(periods) \/ periods.over)
              => completion.date = completion.at + SentinelDays
         /\ completion.date # InvalidDate

\* a finite period count above 1200 has been turned into the sentinel
C9_Witness ==
  /\ completion.called
  /\ goal.initial_amount < goal.target_amount
  /\ completion.pledge > 0
  /\ LET periods == calculatePeriods(MonthlyRate(goal.expected_return_rate),
                      completion.pledge, goal.initial_amount, goal.target_amount)
     IN  isFinite(periods) /\ periods.over
  /\ completion.date = completion.at + SentinelDays

\* C10 (determinism): a call of calculateCompletionDate with the arguments of the
\* recorded call returns what the recorded call returned, whenever it is made.
C10_Deterministic ==
  ( completion.called /\ ValidGoal /\ completion.pledge >= 0 )
  => calculateCompletionDate(goal.target_amount, goal.initial_amount, completion.pledge,
       goal.expected_return_rate, goal.created_at, now) = completion.date

\* the exact amount per period that makes presentValue, grown over the periods,
\* and an ordinary annuity reach futureValue; 0 when nothing remains
ExactPayment(futureValue, presentValue, rate, periods) ==
  LET remaining == RatSub(RatOfInt(futureValue),
                          calculateFutureValue(presentValue, rate, periods))
  IN  IF remaining.n <= 0 THEN RatOfInt(0)
      ELSE IF rate.n = 0 THEN RatDiv(remaining, RatOfInt(periods))
      ELSE RatDiv(remaining, RatDiv(RatSub(GrowthPow(rate, periods), RatOfInt(1)), rate))

\* C14 (required payment): calculateMonthlyPayment is never negative; it returns 0
\* when the initial amount grown over the contribution periods reaches the
\* target, and for every other valid goal a positive amount that is the exact
\* payment rounded up to a whole hundredth.
C14_PaymentCeil ==
  ( payment.called /\ ValidGoal )
  => LET periods == calculateContributionPeriods(
                      getContributionStartDate(goal.created_at), goal.target_date)
         exact == ExactPayment(goal.target_amount, goal.initial_amount,
                               MonthlyRate(goal.expected_return_rate), periods)
     IN  /\ payment.value >= 0
         /\ exact.n = 0 => payment.value = 0
         /\ exact.n > 0 => payment.value > 0 /\ payment.value = Ceil(exact)

\* C17 (boundary validation): no entry point returns a number or a date for
\* invalid input: calculateMonthlyPayment and calculateCompletionDate return
\* nothing for a goal outside the data model, and calculateCompletionDate
\* returns nothing for a negative contribution.
C17_RejectsInvalid ==
  /\ payment.called => ValidGoal
  /\ completion.called => ValidGoal /\ completion.pledge >= 0

(***************************************************************************)
(* Properties of the status classifier (checked under SpecStatus)          *)
(***************************************************************************)
\* the goal is not completed and its contribution start month has arrived
Scheduled ==
  /\ metrics.called
  /\ goal.current_total < goal.target_amount
  /\ ~(currentMonth(metrics.at) < getContributionStartDate(goal.created_at))

\* C4 (upper boundary): for a goal that is not completed and whose contribution
\* start month has arrived, the status is 'ahead' only when currentTotal is
\* strictly greater than expectedTotal + 10% of monthlyPledge, and 'on-track' when
\* it equals expectedTotal + tolerance.  Stated for the goals the forms accept
\* (monthly_pledge > 0); the case monthly_pledge = 0 goes the same way.
C4_AheadBoundary ==
  ( Scheduled /\ goal.monthly_pledge > 0 )
  => LET actual10 == 10 * goal.current_total
         upper10 == 10 * expectedTotal(goal, metrics.at) + goal.monthly_pledge
     IN  /\ metrics.onTrackStatus = "ahead" => actual10 > upper10
         /\ actual10 = upper10 => metrics.onTrackStatus = "on-track"

\* C5 (lower boundary): for a goal that is not completed and whose contribution
\* start month has arrived, the status is 'behind' only when currentTotal is
\* strictly less than expectedTotal - 10% of monthlyPledge, and 'on-track' when it
\* equals expectedTotal - tolerance.
C5_BehindBoundary ==
  Scheduled
  => LET actual10 == 10 * goal.current_total
         lower10 == 10 * expectedTotal(goal, metrics.at) - goal.monthly_pledge
     IN  /\ metrics.onTrackStatus = "behind" => actual10 < lower10
         /\ actual10 = lower10 => metrics.onTrackStatus = "on-track"

\* C6 (completed has priority): the status is 'completed' exactly when
\* current_total >= target_amount, whatever the clock, the contribution start
\* date, the pledge and the expected total are.
C6_CompletedIff ==
  metrics.called
  => (metrics.onTrackStatus = "completed" <=> goal.current_total >= goal.target_amount)

\* a completed goal classified before its contribution start date, with a pledge
C6_Witness ==
  /\ metrics.called
  /\ goal.current_total >= goal.target_amount
  /\ metrics.at < getContributionStartDate(goal.created_at)
  /\ goal.monthly_pledge > 0
  /\ metrics.onTrackStatus = "completed"

\* C7 (never behind before the schedule starts): with current_total < target_amount
\* and the clock before contributionStartDate, the status is 'on-track'.
C7_OnTrackBeforeStart ==
  ( /\ metrics.called
    /\ goal.current_total < goal.target_amount
    /\ metrics.at < getContributionStartDate(goal.created_at) )
  => metrics.onTrackStatus = "on-track"

\* a goal with a pledge and a contribution already made, classified on the last
\* day before its contribution start date
C7_Witness ==
  /\ metrics.called
  /\ goal.current_total < goal.target_amount
  /\ metrics.at + 1 = getContributionStartDate(goal.created_at)
  /\ goal.monthly_pledge > 0
  /\ goal.current_total > goal.initial_amount
  /\ metrics.onTrackStatus = "on-track"

(***************************************************************************)
(* Properties of the stored total (checked under SpecDb)                   *)
(***************************************************************************)
\* C11 (stored total): after any sequence of goal creations, goal edits and
\* contribution inserts, updates and deletes, every goal's current_total equals
\* its initial_amount plus the sum of the amounts of its confirmed contributions.
C11_StoredTotal ==
  \A gid \in GoalIds :
    goals[gid].present
    => goals[gid].current_total
         = goals[gid].initial_amount + SumConfirmed(contributions, gid)

(***************************************************************************)
(* Properties of the calendar functions (checked under SpecCalendar)       *)
(***************************************************************************)
\* C12 (contribution start date): contributionStartDate is the first day of the
\* calendar month immediately following createdAt, whatever the day of the month
\* of createdAt is; a goal created in December starts on 1 January of the next
\* year.
C12_FirstOfNextMonth ==
  started.called
  => LET created == CivilFromDays(started.createdAt)
         start == CivilFromDays(started.value)
     IN  /\ start.day = 1
         /\ created.month < 12 => start.year = created.year /\ start.month = created.month + 1
         /\ created.month = 12 => start.year = created.year + 1 /\ start.month = 1
         /\ started.value > started.createdAt
         /\ \A date \in (started.createdAt + 1) .. (started.value - 1) : getDate(date) # 1

\* a goal created on the last day of a December
C12_Witness ==
  /\ started.called
  /\ started.createdAt = Day(2024, 12, 31)
  /\ started.value = Day(2025, 1, 1)

\* months counted from year 0
MonthNumber(date) == CivilFromDays(date).year * 12 + CivilFromDays(date).month

C15_ZeroRateLinear ==
  ( projected.called /\ goal.expected_return_rate = 0 )
  => projected.value
       = goal.initial_amount
           + projected.pledge * calculateContributionPeriods(
                                  getContributionStartDate(goal.created_at), goal.target_date)

\* a goal created in the middle of a month, with an initial amount, a pledge
\* and more than one period
C15_Witness ==
  /\ projected.called
  /\ goal.expected_return_rate = 0
  /\ goal.initial_amount > 0
  /\ projected.pledge > 0
  /\ getDate(goal.created_at) > 1
  /\ calculateContributionPeriods(getContributionStartDate(goal.created_at), goal.target_date) > 1
  /\ projected.value > goal.initial_amount + projected.pledge

\* C16 (monotonicity of the projected total): with initialAmount, rate, createdAt
\* and targetDate fixed, a larger pledge never gives a smaller projected total.
C16_TotalMonotone ==
  projected.called
  => \A p \in PledgeInputs :
       LET other == calculateProjectedTotal(goal.initial_amount, p, goal.target_date,
                      goal.created_at, goal.expected_return_rate)
       IN  /\ p >= projected.pledge => other >= projected.value
           /\ p <= projected.pledge => other <= projected.value

\* a call at a positive rate for which a larger pledge gives a larger total
C16_Witness ==
  /\ projected.called
  /\ goal.expected_return_rate > 0
  /\ projected.pledge >= 0
  /\ \E p \in PledgeInputs :
       /\ p > projected.pledge
       /\ calculateProjectedTotal(goal.initial_amount, p, goal.target_date,
             goal.created_at, goal.expected_return_rate) > projected.value

\* C21 (projected interest): calculateProjectedInterest is
\* max(0, calculateProjectedTotal(...) - initialAmount - monthlyContribution *
\* contributionPeriods); it is never negative, and it is 0 at rate 0.
C21_InterestFloor ==
  interest.called
  => LET total == calculateProjectedTotal(goal.initial_amount, interest.pledge,
                    goal.target_date, goal.created_at, goal.expected_return_rate)
         periods == calculateContributionPeriods(
                      getContributionStartDate(goal.created_at), goal.target_date)
         earned == total - goal.initial_amount - interest.pledge * periods
     IN  /\ earned >= 0 => interest.value = earned
         /\ earned < 0 => interest.value = 0
         /\ interest.value >= 0
         /\ goal.expected_return_rate = 0 => interest.value = 0

\* a call at a positive rate whose total lies below the amounts paid in: the
\* contribution is negative, and the floor turns the difference into 0
C21_Witness ==
  /\ interest.called
  /\ goal.expected_return_rate > 0
  /\ interest.value = 0
  /\ calculateProjectedTotal(goal.initial_amount, interest.pledge, goal.target_date,
        goal.created_at, goal.expected_return_rate)
       < goal.initial_amount
           + interest.pledge * calculateContributionPeriods(
                                 getContributionStartDate(goal.created_at), goal.target_date)

\* C25 (sufficiency of the required payment): for a goal with initialAmount <
\* targetAmount, the projected total of the payment calculateMonthlyPayment
\* returned is at least targetAmount.
C25_PaymentSuffices ==
  ( /\ payment.called
    /\ projected.called
    /\ projected.pledge = payment.value
    /\ goal.initial_amount < goal.target_amount )
  => projected.value >= goal.target_amount

\* a goal at a positive rate over several periods whose payment, rounded up to
\* a cent, brings the total above the target
C25_Witness ==
  /\ payment.called
  /\ projected.called
  /\ projected.pledge = payment.value
  /\ goal.initial_amount < goal.target_amount
  /\ goal.expected_return_rate > 0
  /\ calculateContributionPeriods(getContributionStartDate(goal.created_at), goal.target_date) > 1
  /\ payment.value > 0
  /\ projected.value > goal.target_amount

(***************************************************************************)
(* Properties of the completion date (checked under Spec)                  *)
(***************************************************************************)
\* C19 (completion date): for a goal with initialAmount < targetAmount whose
\* period count is finite and at most 1200, calculateCompletionDate returns the
\* contribution start date advanced by ceil(periods) whole months: the first
\* day of the month that many months after the start month, never earlier
\* than the contribution start date.
C19_StartPlusPeriods ==
  ( completion.called /\ goal.initial_amount < goal.target_amount )
  => LET periods == calculatePeriods(MonthlyRate(goal.expected_return_rate),
                      completion.pledge, goal.initial_amount, goal.target_amount)
         contributionStartDate == getContributionStartDate(goal.created_at)
     IN  ( isFinite(periods) /\ ~periods.over )
         => /\ MonthNumber(completion.date)
                 = MonthNumber(contributionStartDate) + periods.ceil
            /\ getDate(completion.date) = 1
            /\ completion.date >= contributionStartDate

\* a completion date several months after the start, in the year after it,
\* computed at a positive rate
C19_Witness ==
  /\ completion.called
  /\ goal.initial_amount < goal.target_amount
  /\ goal.expected_return_rate > 0
  /\ completion.pledge > 0
  /\ LET periods == calculatePeriods(MonthlyRate(goal.expected_return_rate),
                      completion.pledge, goal.initial_amount, goal.target_amount)
     IN  isFinite(periods) /\ ~periods.over /\ periods.ceil >= 2
  /\ getFullYear(completion.date) > getFullYear(goal.created_at)
  /\ getDate(completion.date) = 1

(***************************************************************************)
(* Properties of the progress percentage (checked under SpecProgress)      *)
(***************************************************************************)
\* C18 (progress percentage): calculateProgressPercentage returns a value in
\* [0, 100]; it is 0 whenever targetAmount <= 0, and for a positive target it
\* is currentAmount / targetAmount * 100 clamped to [0, 100].
C18_ProgressClamped ==
  progress.called
  => LET v == progress.value
         c == progress.currentAmount
         t == progress.targetAmount
     IN  /\ v.d > 0 /\ 0 <= v.n /\ v.n <= 100 * v.d
         /\ t <= 0 => v.n = 0
         /\ t > 0 /\ c <= 0 => v.n = 0
         /\ t > 0 /\ c >= t => v.n = 100 * v.d
         /\ t > 0 /\ 0 < c /\ c < t => v.n * t = 100 * c * v.d

\* a call with the target 0 and a positive current amount: the quotient the
\* guard skips is a division by zero
C18_Witness ==
  /\ progress.called
  /\ progress.targetAmount = 0
  /\ progress.currentAmount > 0
  /\ progress.value = RatOfInt(0)

C23_MonthsBetween ==
  between.called
  => LET yearDiff == getFullYear(between.endDate) - getFullYear(between.startDate)
         monthDiff == getMonth(between.endDate) - getMonth(between.startDate)
         dayDiff == getDate(between.endDate) - getDate(between.startDate)
         total == RatAdd(RatOfInt(yearDiff * 12 + monthDiff),
                         Rat(dayDiff, daysInMonth(between.endDate)))
     IN  /\ between.value = (IF total.n <= 0 THEN RatOfInt(0) ELSE total)
         /\ between.endDate <= between.startDate => between.value = RatOfInt(0)

(***************************************************************************)
(* Properties of the current total (checked under SpecCurrent)             *)
(***************************************************************************)
\* C22 (contributions in date order): the result of calculateCurrentTotal is the
\* same for every order of the input list; it is the rounded sum of the initial
\* amount grown over all the gaps from the creation date on and of each
\* contribution grown over the gaps from its own date on, the contributions
\* taken in date order; at rate 0 it is initialAmount plus the sum of the amounts.
C22_DateOrder ==
  current.called
  => LET list == current.contributions
         n == Len(list)
         reordered(p) == [k \in 1..n |-> list[p[k]]]
         byDate == CHOOSE q \in {reordered(p) : p \in Permutations(1..n)} :
                     \A k \in 1..(n - 1) : q[k].date <= q[k + 1].date
         dateOf(k) == IF k = 0 THEN current.goalCreatedAt ELSE byDate[k].date
         nextOf(k) == IF k < n THEN byDate[k + 1].date ELSE current.asOfDate
         months[k \in 0..n] ==
           WholeMonths(calculateMonthsBetweenDates(dateOf(k), nextOf(k)))
             + (IF k < n THEN months[k + 1] ELSE 0)
         grown(amount, k) ==
           RatMul(RatOfInt(amount), GrowthPow(MonthlyRate(current.annualRate), months[k]))
         shares[k \in 0..n] ==
           IF k = 0 THEN grown(current.initialAmount, 0)
           ELSE RatAdd(shares[k - 1], grown(byDate[k].amount, k))
         amounts[k \in 0..n] == IF k = 0 THEN 0 ELSE amounts[k - 1] + list[k].amount
     IN  /\ \A p \in Permutations(1..n) :
              calculateCurrentTotal(current.initialAmount, reordered(p), current.annualRate,
                                    current.goalCreatedAt, current.asOfDate) = current.value
         /\ current.value = Round(shares[n])
         /\ current.annualRate = 0 => current.value = current.initialAmount + amounts[n]

\* two contributions given with the later one first, at a positive rate: the
\* earlier one has grown and the result lies above the sum of the amounts
C22_Witness ==
  /\ current.called
  /\ current.annualRate > 0
  /\ Len(current.contributions) = 2
  /\ current.contributions[1].date > current.contributions[2].date
  /\ current.contributions[2].date > current.goalCreatedAt
  /\ current.asOfDate > current.contributions[1].date
  /\ current.value > current.initialAmount + current.contributions[1].amount
                       + current.contributions[2].amount

(***************************************************************************)
(* Properties of the contribution history (checked under SpecHistory)      *)
(***************************************************************************)
\* C24 (order of the history): generateMonthlyData returns the year groups in
\* ascending order of the years, and in every year group the monthly rows in
\* the order of the calendar months, after the row of the initial amount when
\* there is one.
C24_Chronological ==
  history.called
  => /\ \A k \in 1..(Len(history.result) - 1) :
          history.result[k].year < history.result[k + 1].year
     /\ \A k \in DOMAIN history.result :
          LET months == history.result[k].months
          IN  \A i \in DOMAIN months, j \in DOMAIN months :
                i < j => /\ ~months[j].isInitialAmount
                         /\ ~months[i].isInitialAmount
                              => months[i].monthDisplay.month < months[j].monthDisplay.month

\* C29 (one row a month): for a target date on or after the contribution start
\* date, the monthly rows are the calendar months from the start month through
\* the target month, each once, and their number is
\* calculateContributionPeriods(contributionStartDate, targetDate).
C29_RowPerPeriod ==
  ( /\ history.called
    /\ history.goal.target_date >= getContributionStartDate(history.goal.created_at) )
  => LET start == getContributionStartDate(history.goal.created_at)
         periods == calculateContributionPeriods(start, history.goal.target_date)
         rowsOf(k) == {i \in DOMAIN history.result[k].months :
                         ~history.result[k].months[i].isInitialAmount}
         rows == UNION { {<<k, i>> : i \in rowsOf(k)} : k \in DOMAIN history.result }
         monthOf(r) == history.result[r[1]].months[r[2]].monthDisplay
         nth(m) == NewDate(getFullYear(start), getMonth(start) + m, 1)
     IN  /\ Cardinality(rows) = periods
         /\ \A m \in 0..(periods - 1) :
              \E r \in rows : /\ monthOf(r).year = getFullYear(nth(m))
                              /\ monthOf(r).month = getMonth(nth(m))
                              /\ history.result[r[1]].year = getFullYear(nth(m))

\* a goal whose target date is the first of a month in the year after its
\* first contribution month: the rows run through the year end and through the
\* target month
C29_Witness ==
  /\ history.called
  /\ history.goal.target_date >= getContributionStartDate(history.goal.created_at)
  /\ getDate(history.goal.target_date) = 1
  /\ Len(history.result) >= 2
  /\ calculateContributionPeriods(getContributionStartDate(history.goal.created_at),
                                  history.goal.target_date) >= 12

(***************************************************************************)
(* Properties of the useGoals hook (checked under SpecHook)                *)
(***************************************************************************)
\* C26 (goals of the current user): the goals state holds only goals fetched
\* for the current user; without a user it is empty and stays empty, whatever
\* call resolves afterwards; and the goals were set by the latest call among
\* those that have returned, so that an older response never replaces a newer one.
C26_CurrentUserGoals ==
  /\ hook.user = NoUser => hook.goals = << >>
  /\ \A i \in DOMAIN hook.goals : hook.goals[i].user_id = hook.user
  /\ \A c \in DOMAIN hook.calls :
       hook.calls[c].status \in {"applied", "failed"} => c <= hook.from

\* C27: every status calculateGoalMetrics returns is mapped by getStatusText and
\* getStatusColor to a label and a colour of its own, and none to the default
\* branch ('Unknown', gray).
C27_StatusMapped ==
  metrics.called =>
    /\ getStatusText(metrics.onTrackStatus) # "Unknown"
    /\ getStatusColor(metrics.onTrackStatus) # "bg-gray-100"
    /\ \A other \in OnTrackStatuses \ {metrics.onTrackStatus} :
          /\ getStatusText(other) # getStatusText(metrics.onTrackStatus)
          /\ getStatusColor(other) # getStatusColor(metrics.onTrackStatus)

\* C28: the projected completion date calculateGoalMetrics returns does not
\* depend on current_total: the goal of the call with any other current_total,
\* evaluated at the same instant, gets the same projectedCompletionDate.
C28_DateIgnoresCurrentTotal ==
  metrics.called =>
    \A total \in 0 .. MaxStatusTotal :
      calculateGoalMetrics([goal EXCEPT !.current_total = total], metrics.at).projectedCompletionDate
        = metrics.projectedCompletionDate

\* a call on a goal with contributions logged (current_total above the initial
\* amount, below the target) whose projection is a month of the plan
C28_Witness ==
  /\ metrics.called
  /\ goal.monthly_pledge > 0
  /\ goal.initial_amount < goal.current_total
  /\ goal.current_total < goal.target_amount
  /\ metrics.projectedCompletionDate
       = toISODate(AddMonths(getContributionStartDate(goal.created_at),
                             calculatePeriods(MonthlyRate(goal.expected_return_rate), goal.monthly_pledge,
                                              goal.initial_amount, goal.target_amount)))
  /\ metrics.projectedCompletionDate # toISODate(getContributionStartDate(goal.created_at))

\* C30: once the contribution start month has arrived, monthsSinceStart is the
\* number of whole months from the start month to the current month plus 1 and
\* expectedTotal = initial_amount + monthly_pledge * monthsSinceStart; on a day of
\* the first contribution month a goal with a pledge, no contributions
\* (current_total = initial_amount) and current_total < target_amount is 'behind'.
C30_FirstMonthBehind ==
  LET start == getContributionStartDate(goal.created_at)
      monthIndex(date) == 12 * CivilFromDays(date).year + CivilFromDays(date).month
      wholeMonths == monthIndex(metrics.at) - monthIndex(start)
  IN  ( metrics.called /\ currentMonth(metrics.at) >= start )
      => /\ monthsSinceStart(goal, metrics.at) = wholeMonths + 1
         /\ expectedTotal(goal, metrics.at)
              = goal.initial_amount + goal.monthly_pledge * (wholeMonths + 1)
         /\ ( /\ wholeMonths = 0
              /\ goal.monthly_pledge > 0
              /\ goal.current_total = goal.initial_amount
              /\ goal.current_total < goal.target_amount )
            => metrics.onTrackStatus = "behind"

\* a goal without contributions classified on the last day of its first
\* contribution month
C30_Witness ==
  /\ metrics.called
  /\ currentMonth(metrics.at) = getContributionStartDate(goal.created_at)
  /\ currentMonth(metrics.at + 1) > currentMonth(metrics.at)
  /\ goal.monthly_pledge > 0
  /\ goal.initial_amount > 0
  /\ goal.current_total = goal.initial_amount
  /\ goal.current_total < goal.target_amount
  /\ metrics.onTrackStatus = "behind"

====
